---- MODULE Spec2Model ----
(***************************************************************************)
(* Money-Come-Terminal: the renderer's price-series cache and request      *)
(* coordination (hooks/useStockData.ts), the real-time polling hook        *)
(* (hooks/useRealtimeRefresh.ts) and the analysis engine                   *)
(* (analysis/signalEngine.ts and the indicator library).                   *)
(*                                                                         *)
(* Three specifications share the variables:                               *)
(*   SpecFetch     AppContent + useStockData.fetchData                     *)
(*   SpecPoll      useRealtimeRefresh                                      *)
(*   SpecAnalysis  runAnalysis over a family of bar series                 *)
(***************************************************************************)
EXTENDS Integers, Sequences, FiniteSets, TLC

VARIABLES
    \* ---- useStockData.ts / AppContent ----
    now,               \* Date.now(), in ms
    advances,          \* how many times the clock has advanced
    dataCache,         \* module-level Map: key -> CacheEntry
    inflightRequests,  \* module-level Map: key -> promise (named by its call)
    calls,             \* the fetchData invocations
    hook,              \* useStockData's React state
    selectedStock,     \* AppContent state
    timeframe,         \* AppContent state
    hasToken,          \* AppContent state
    \* ---- useRealtimeRefresh.ts ----
    poll,
    \* ---- signalEngine.ts ----
    bars,              \* the KLineData[] handed to useAnalysis
    analysis,          \* what useAnalysis returned for it
    \* ---- the library functions applied to an input of their own ----
    calc,              \* the function applied, its input and what it returned
    \* ---- the main process: ipc/handlers.ts, market/*.ts ----
    main

vars == <<now, advances, dataCache, inflightRequests, calls, hook,
          selectedStock, timeframe, hasToken, poll, bars, analysis, calc, main>>

fetchVars == <<now, advances, dataCache, inflightRequests, calls, hook,
               selectedStock, timeframe, hasToken>>
pollVars == <<poll>>
analysisVars == <<bars, analysis>>
calcVars == <<calc>>
mainVars == <<main>>

(***************************************************************************)
(* Bounds of the model                                                     *)
(***************************************************************************)
MaxCalls == 2
MaxAdvance == 2
MaxErrors == 3

NoCalc == [op |-> "none"]  \* no function applied yet
Null == "null"          \* null where the value is a string (tsCode)
NoKey == <<"-", "-">>    \* no key
NoPromise == 0          \* no promise (promises are named by call number, from 1)
NoTime == -1            \* null where the value is a time

Min(a, b) == IF a < b THEN a ELSE b
Max(a, b) == IF a > b THEN a ELSE b
Abs(a) == IF a < 0 THEN -a ELSE a

(***************************************************************************)
(* useStockData.ts: cache                                                  *)
(***************************************************************************)
Stocks == {"A", "B"}
Timeframes == {"daily", "5min"}
Calls == 1..MaxCalls

getCacheKey(tsCode, tf) == <<tsCode, tf>>
Keys == {getCacheKey(s, tf) : s \in Stocks, tf \in Timeframes}

\* the empty KLineData[] and the absent Map entry
NoData == [key |-> NoKey, fetchedAt |-> NoTime]
NoEntry == [data |-> NoData, timestamp |-> NoTime, ttl |-> NoTime]
NoError == [type |-> "none", retryable |-> FALSE]

TTL_DAILY == 600000
TTL_MINUTE == 120000

getCacheTTL(tf) == IF tf = "daily" THEN TTL_DAILY ELSE TTL_MINUTE

\* the comparison written with >=
isExpired_atTTL(entry, t) == t - entry.timestamp >= entry.ttl

\* Date.now() - entry.timestamp > entry.ttl
isExpired(entry, t) == t - entry.timestamp > entry.ttl

\* getCachedData(key): the data served, or Null
getCachedData(cache, key, t) ==
    IF cache[key] = NoEntry THEN NoData
    ELSE IF isExpired(cache[key], t) THEN NoData
    ELSE cache[key].data

\* the Map after getCachedData(key): an expired entry is deleted
cacheAfterGet(cache, key, t) ==
    IF cache[key] # NoEntry /\ isExpired(cache[key], t)
    THEN [cache EXCEPT ![key] = NoEntry]
    ELSE cache

CACHE_MAX == 50
CACHE_EVICT == 10

cacheSize(cache) == Cardinality({k \in DOMAIN cache : cache[k] # NoEntry})

\* the i oldest keys by timestamp (sort by timestamp, take the first i)
RECURSIVE oldestKeys(_, _)
oldestKeys(cache, i) ==
    LET present == {k \in DOMAIN cache : cache[k] # NoEntry} IN
    IF i = 0 \/ present = {} THEN {}
    ELSE LET k == CHOOSE x \in present :
                     \A y \in present : cache[x].timestamp <= cache[y].timestamp
         IN {k} \cup oldestKeys([cache EXCEPT ![k] = NoEntry], i - 1)

\* setCachedData(key, data, timeframe)
setCachedData(cache, key, d, tf, t) ==
    LET c1 == [cache EXCEPT ![key] =
                  [data |-> d, timestamp |-> t, ttl |-> getCacheTTL(tf)]]
    IN IF cacheSize(c1) > CACHE_MAX
       THEN LET old == oldestKeys(c1, CACHE_EVICT)
            IN [k \in DOMAIN c1 |-> IF k \in old THEN NoEntry ELSE c1[k]]
       ELSE c1

(***************************************************************************)
(* useStockData.ts: error classification                                   *)
(*                                                                         *)
(* A raw error is one of the messages the main process sends back; what    *)
(* classifyError looks at is which keywords its lower-cased text includes. *)
(***************************************************************************)
RawErrors == {
    "ERR_NET_ZH",       \* classifyApiError's network message (Chinese text only)
    "ERR_TOKEN",        \* 'Token ... ' : includes 'token'
    "ERR_PERMISSION",   \* permission message: includes the permission words
    "ERR_EMPTY_ITEMS",  \* empty item list: includes 'token', permission and no-data words
    "ERR_API",          \* 'Tushare API ...': includes 'api' and 'tushare'
    "ERR_NO_DATA",      \* a passed-through upstream 'no data' message
    "ERR_FETCH",        \* a passed-through 'fetch failed' message
    "" }                \* no message at all

includes(raw) ==
    CASE raw = "ERR_NET_ZH" -> {}
      [] raw = "ERR_TOKEN" -> {"token"}
      [] raw = "ERR_PERMISSION" -> {"permission"}
      [] raw = "ERR_EMPTY_ITEMS" -> {"token", "permission", "nodata"}
      [] raw = "ERR_API" -> {"api"}
      [] raw = "ERR_NO_DATA" -> {"nodata"}
      [] raw = "ERR_FETCH" -> {"network"}
      [] OTHER -> {}

\* classifyError with every class marked retryable
classifyError_retryAll(raw) ==
    LET kw == includes(raw) IN
    IF "network" \in kw THEN [type |-> "network", retryable |-> TRUE]
    ELSE IF "token" \in kw THEN [type |-> "auth", retryable |-> TRUE]
    ELSE IF "permission" \in kw THEN [type |-> "permission", retryable |-> TRUE]
    ELSE IF "nodata" \in kw THEN [type |-> "nodata", retryable |-> TRUE]
    ELSE IF "api" \in kw THEN [type |-> "api", retryable |-> TRUE]
    ELSE [type |-> "unknown", retryable |-> TRUE]

classifyError(raw) ==
    LET kw == includes(raw) IN
    IF "network" \in kw THEN [type |-> "network", retryable |-> TRUE]
    ELSE IF "token" \in kw THEN [type |-> "auth", retryable |-> FALSE]
    ELSE IF "permission" \in kw THEN [type |-> "permission", retryable |-> FALSE]
    ELSE IF "nodata" \in kw THEN [type |-> "nodata", retryable |-> FALSE]
    ELSE IF "api" \in kw THEN [type |-> "api", retryable |-> TRUE]
    ELSE [type |-> "unknown", retryable |-> TRUE]

MAX_RETRIES == 2
RETRY_DELAYS == <<1000, 3000>>

(***************************************************************************)
(* useStockData.ts: the hook                                               *)
(***************************************************************************)

\* what a successful getKLineData returns: the series of the key asked for
Series(key, t) == [key |-> key, fetchedAt |-> t]

hookInit ==
    [data |-> NoData, loading |-> FALSE, error |-> NoError,
     lastUpdated |-> NoTime, fromCache |-> FALSE]

idleCall ==
    [pc |-> "idle", key |-> NoKey, force |-> FALSE, attempt |-> 0,
     wakeAt |-> NoTime, sleptAt |-> NoTime, waitsOn |-> NoPromise,
     \* ---- history, read by the properties only ----
     outcome |-> "none", upstreamCount |-> 0, waits |-> <<>>,
     waited |-> <<>>, surfaced |-> NoError, cacheOps |-> <<>>,
     lastRaw |-> "none", selectedAtEnd |-> Null,
     startNow |-> NoTime, startEntry |-> NoEntry, startInflight |-> NoPromise]

\* the renderer's mutable state, threaded through one run of the event loop
Renderer == [cache |-> dataCache, inflight |-> inflightRequests,
             calls |-> calls, hook |-> hook]

\* one upstream window.api.getKLineData(tsCode, timeframe) call is issued
issueUpstream(call, t) ==
    [call EXCEPT !.pc = "awaitUpstream", !.upstreamCount = @ + 1]

\* fetchData lines 177-216: loading state, fetchWithRetry() up to its first
\* await, inflightRequests.set(cacheKey, promise)
beginFetch(R, c, t) ==
    [R EXCEPT !.hook = [@ EXCEPT !.loading = TRUE, !.error = NoError,
                                 !.fromCache = FALSE],
              !.calls[c] = issueUpstream([@ EXCEPT !.attempt = 0], t),
              !.inflight[R.calls[c].key] = c]

\* fetchData(tsCode, timeframe, forceRefresh) up to its first await
fetchData(R, c, key, force, t) ==
    LET cached == IF force THEN NoData ELSE getCachedData(R.cache, key, t)
        cache1 == IF force THEN R.cache ELSE cacheAfterGet(R.cache, key, t)
        started == [idleCall EXCEPT
                      !.key = key, !.force = force, !.startNow = t,
                      !.startEntry = R.cache[key],
                      !.startInflight = R.inflight[key],
                      !.cacheOps = IF cache1 # R.cache THEN <<"delete">> ELSE <<>>]
        inflight == R.inflight[key]
    IN IF cached # NoData
       THEN [R EXCEPT
               !.hook = [@ EXCEPT !.data = cached, !.error = NoError,
                                  !.fromCache = TRUE,
                                  !.lastUpdated = R.cache[key].timestamp],
               !.calls[c] = [started EXCEPT !.pc = "done",
                                            !.outcome = "cacheHit"]]
       ELSE IF inflight # NoPromise /\ ~force
       THEN [R EXCEPT
               !.cache = cache1,
               !.calls[c] = [started EXCEPT !.pc = "awaitInflight",
                                            !.waitsOn = inflight]]
       ELSE beginFetch([R EXCEPT !.cache = cache1, !.calls[c] = started], c, t)

\* fetchData lines 218-235 when the call's own promise resolved
ownSuccess(R, c, d, t) ==
    LET key == R.calls[c].key IN
    [R EXCEPT
       !.cache = setCachedData(@, key, d, key[2], t),
       !.hook = [@ EXCEPT !.data = d, !.lastUpdated = t, !.loading = FALSE],
       !.inflight[key] = NoPromise,
       !.calls[c] = [@ EXCEPT !.pc = "done", !.outcome = "ok",
                              !.selectedAtEnd = selectedStock]]

\* the catch branch storing the empty series it shows
ownFailure_cachesEmpty(R, c, msg, t) ==
    LET key == R.calls[c].key IN
    [R EXCEPT
       !.cache = setCachedData(@, key, NoData, key[2], t),
       !.hook = [@ EXCEPT !.error = classifyError(msg), !.data = NoData,
                          !.loading = FALSE],
       !.inflight[key] = NoPromise,
       !.calls[c] = [@ EXCEPT !.pc = "done", !.outcome = "failed",
                              !.selectedAtEnd = selectedStock,
                              !.surfaced = classifyError(msg)]]

\* fetchData lines 225-235 when the call's own promise rejected with msg
ownFailure(R, c, msg, t) ==
    LET key == R.calls[c].key IN
    [R EXCEPT
       !.hook = [@ EXCEPT !.error = classifyError(msg), !.data = NoData,
                          !.loading = FALSE],
       !.inflight[key] = NoPromise,
       !.calls[c] = [@ EXCEPT !.pc = "done", !.outcome = "failed",
                              !.selectedAtEnd = selectedStock,
                              !.surfaced = classifyError(msg)]]

\* fetchData lines 165-171: a caller that awaited another's promise
waiterSuccess(R, w, d, t) ==
    [R EXCEPT
       !.hook = [@ EXCEPT !.data = d, !.error = NoError, !.fromCache = FALSE,
                          !.lastUpdated = t],
       !.calls[w] = [@ EXCEPT !.pc = "done", !.outcome = "joined",
                              !.selectedAtEnd = selectedStock]]

\* the reactions of the callers awaiting promise p, in the order they
\* registered (calls are numbered in starting order)
RECURSIVE runWaiters(_, _, _, _, _)
runWaiters(R, ws, ok, d, t) ==
    IF ws = {} THEN R
    ELSE LET w == CHOOSE x \in ws : \A y \in ws : x <= y
             R1 == IF ok THEN waiterSuccess(R, w, d, t)
                         ELSE beginFetch(R, w, t)   \* catch {}: fall through
         IN runWaiters(R1, ws \ {w}, ok, d, t)

waitersOf(R, p) ==
    {w \in Calls : R.calls[w].pc = "awaitInflight" /\ R.calls[w].waitsOn = p}

\* the promise of call c settles: its own continuation runs first, then the
\* waiters', all before the event loop takes the next task
settle(R, c, ok, d, msg, t) ==
    LET ws == waitersOf(R, c)
        R1 == IF ok THEN ownSuccess(R, c, d, t) ELSE ownFailure(R, c, msg, t)
        R2 == [R1 EXCEPT !.calls[c].cacheOps =
                  IF R1.cache # R.cache THEN Append(@, "set") ELSE @]
    IN runWaiters(R2, ws, ok, d, t)

\* sleep(RETRY_DELAYS[0]) for every retry
retryDelay_first(attempt) == RETRY_DELAYS[1]

\* RETRY_DELAYS[attempt], attempt counted from 0
retryDelay(attempt) == RETRY_DELAYS[attempt + 1]

\* fetchWithRetry lines 189-212 after getKLineData answered with a failure
afterFailure(R, c, raw, t) ==
    LET call == R.calls[c]
        lastError == IF raw = "" THEN "ERR_DEFAULT" ELSE raw
        R1 == [R EXCEPT !.calls[c].lastRaw = raw]
    IN IF ~classifyError(lastError).retryable
       THEN settle(R1, c, FALSE, NoData, lastError, t)
       ELSE IF call.attempt < MAX_RETRIES
       THEN [R1 EXCEPT !.calls[c] =
               [@ EXCEPT !.pc = "sleeping", !.sleptAt = t,
                         !.wakeAt = t + retryDelay(call.attempt),
                         !.waits = Append(@, retryDelay(call.attempt))]]
       ELSE settle(R1, c, FALSE, NoData, lastError, t)

commit(R) ==
    /\ dataCache' = R.cache
    /\ inflightRequests' = R.inflight
    /\ calls' = R.calls
    /\ hook' = R.hook

startedCalls == {c \in Calls : calls[c].pc # "idle"}
nextCall == Cardinality(startedCalls) + 1

(***************************************************************************)
(* AppContent: what makes fetchData run                                    *)
(***************************************************************************)
\* effect [selectedStock, timeframe, hasToken]
fetchEffect(R, stock, tf, token, t) ==
    IF stock # Null /\ token
    THEN fetchData(R, nextCall, getCacheKey(stock, tf), FALSE, t)
    ELSE R

canStart(stock, token) == (stock # Null /\ token) => nextCall <= MaxCalls

\* handleStockSelect: a search result is picked (a new StockInfo object each
\* time, so the effect runs also when the same stock is picked again)
SelectStock(s) ==
    /\ canStart(s, hasToken)
    /\ selectedStock' = s
    /\ commit(fetchEffect(Renderer, s, timeframe, hasToken, now))
    /\ UNCHANGED <<now, advances, timeframe, hasToken, poll, bars, analysis, calc, main>>

\* setTimeframe from the selector or the 1-6 keys
SetTimeframe(tf) ==
    /\ tf # timeframe
    /\ canStart(selectedStock, hasToken)
    /\ timeframe' = tf
    /\ commit(fetchEffect(Renderer, selectedStock, tf, hasToken, now))
    /\ UNCHANGED <<now, advances, selectedStock, hasToken, poll, bars, analysis, calc, main>>

\* handleRefresh (button, Cmd/Ctrl+R)
Refresh ==
    /\ selectedStock # Null /\ hasToken
    /\ nextCall <= MaxCalls
    /\ commit(fetchData(Renderer, nextCall,
                        getCacheKey(selectedStock, timeframe), TRUE, now))
    /\ UNCHANGED <<now, advances, selectedStock, timeframe, hasToken,
                   poll, bars, analysis, calc, main>>

\* checkToken on mount found a token
TokenFound ==
    /\ ~hasToken
    /\ canStart(selectedStock, TRUE)
    /\ hasToken' = TRUE
    /\ commit(fetchEffect(Renderer, selectedStock, timeframe, TRUE, now))
    /\ UNCHANGED <<now, advances, selectedStock, timeframe, poll, bars, analysis, calc, main>>

\* clearCache()
clearCache(cache) == [k \in DOMAIN cache |-> NoEntry]

\* handleTokenSaved: setHasToken(true), clearCache(); the effect runs if
\* hasToken changed
TokenSaved ==
    /\ ~hasToken => canStart(selectedStock, TRUE)
    /\ hasToken' = TRUE
    /\ LET R == [Renderer EXCEPT !.cache = clearCache(@)]
       IN IF hasToken THEN commit(R)
          ELSE commit(fetchEffect(R, selectedStock, timeframe, TRUE, now))
    /\ UNCHANGED <<now, advances, selectedStock, timeframe, poll, bars, analysis, calc, main>>

(***************************************************************************)
(* The event loop: upstream answers and timers                             *)
(***************************************************************************)
\* getKLineData answers call c with success and data
RespondOk(c) ==
    /\ calls[c].pc = "awaitUpstream"
    /\ commit(settle(Renderer, c, TRUE, Series(calls[c].key, now), "", now))
    /\ UNCHANGED <<now, advances, selectedStock, timeframe, hasToken,
                   poll, bars, analysis, calc, main>>

\* how many upstream calls of c have failed
failuresOf(c) ==
    calls[c].upstreamCount
      - (IF calls[c].pc = "awaitUpstream" \/ calls[c].outcome = "ok" THEN 1 ELSE 0)

RECURSIVE sumOver(_, _)
sumOver(f, S) ==
    IF S = {} THEN 0
    ELSE LET x == CHOOSE y \in S : TRUE IN f[x] + sumOver(f, S \ {x})

errorsSeen == sumOver([c \in Calls |-> failuresOf(c)], Calls)

\* getKLineData answers call c with {success: false, error: raw}
RespondError(c, raw) ==
    /\ calls[c].pc = "awaitUpstream"
    /\ errorsSeen < MaxErrors
    /\ commit(afterFailure(Renderer, c, raw, now))
    /\ UNCHANGED <<now, advances, selectedStock, timeframe, hasToken,
                   poll, bars, analysis, calc, main>>

\* sleep(RETRY_DELAYS[attempt]) is over: the next attempt is made
Wake(c) ==
    /\ calls[c].pc = "sleeping"
    /\ now >= calls[c].wakeAt
    /\ calls' = [calls EXCEPT ![c] =
                    issueUpstream([@ EXCEPT !.attempt = @ + 1,
                                            !.wakeAt = NoTime,
                                            !.waited = Append(@, now - calls[c].sleptAt)],
                                  now)]
    /\ UNCHANGED <<now, advances, dataCache, inflightRequests, hook,
                   selectedStock, timeframe, hasToken, poll, bars, analysis, calc, main>>

\* the instants at which something changes: a timer is due, a cache entry
\* reaches its TTL, a cache entry is 1 ms past its TTL
Instants ==
    {calls[c].wakeAt : c \in {x \in Calls : calls[x].pc = "sleeping"}}
    \cup {dataCache[k].timestamp + dataCache[k].ttl + i :
            k \in {x \in Keys : dataCache[x] # NoEntry}, i \in {0, 1}}

\* time passes, up to one of these instants
Advance(t) ==
    /\ advances < MaxAdvance
    /\ t > now
    /\ now' = t
    /\ advances' = advances + 1
    /\ UNCHANGED <<dataCache, inflightRequests, calls, hook,
                   selectedStock, timeframe, hasToken, poll, bars, analysis, calc, main>>


(***************************************************************************)
(* useRealtimeRefresh.ts                                                   *)
(***************************************************************************)
MaxOutstanding == 2

\* the instants the wall clock is looked at: UTC day of week (0 = Sunday)
\* and UTC minute of the day
UtcDays == {0, 1, 5, 6}
UtcMinutes == {84, 85, 211, 212, 298, 299, 421, 422, 1000}

\* new Date(utcMs + 8 * 3600_000): Beijing day and minute of the day
beijing(utcDay, utcMin) ==
    [day |-> (utcDay + (utcMin + 8 * 60) \div 1440) % 7,
     timeMinutes |-> (utcMin + 8 * 60) % 1440]

\* isTradingTime()
isTradingTime(utcDay, utcMin) ==
    LET b == beijing(utcDay, utcMin) IN
    IF b.day = 0 \/ b.day = 6 THEN FALSE
    ELSE IF b.timeMinutes >= 565 /\ b.timeMinutes <= 691 THEN TRUE
    ELSE IF b.timeMinutes >= 779 /\ b.timeMinutes <= 901 THEN TRUE
    ELSE FALSE

\* the hook after mounting with tsCode = null, enabled = false
pollInit ==
    [tsCode |-> Null, enabled |-> FALSE,         \* props
     realtimeBar |-> Null, isTrading |-> FALSE,  \* state
     isFetchingRef |-> FALSE, tsCodeRef |-> Null,
     interval |-> Null,        \* the tsCode the running interval's tick closed over
     requests |-> <<>>,        \* outstanding refreshRealtimeBar calls, in issue order
     \* what the hook returned from the last render with new props: the render
     \* runs before its effects, with the state the previous render left
     returned |-> [tsCode |-> Null, realtimeBar |-> Null],
     utcDay |-> 1, utcMin |-> 84]

\* tick() of the effect that closed over tsCode ts, up to its await
tick(P, ts) ==
    LET trading == isTradingTime(P.utcDay, P.utcMin)
        P1 == [P EXCEPT !.isTrading = trading]
    IN IF ~trading THEN P1
       ELSE IF P.isFetchingRef THEN P1
       ELSE IF P.tsCodeRef = Null THEN P1
       ELSE [P1 EXCEPT !.isFetchingRef = TRUE,
                       !.requests = Append(@, [subject |-> P.tsCodeRef,
                                               closure |-> ts])]

\* a render with new props: cleanups of the effects whose deps changed, then
\* the effects in order
render(P, ts, en) ==
    LET tsChanged == ts # P.tsCode
        \* cleanup of the polling effect (only a running one registered it)
        P1 == IF P.interval # Null
              THEN [P EXCEPT !.interval = Null, !.isFetchingRef = FALSE]
              ELSE P
        \* tsCodeRef.current = tsCode; setRealtimeBar(null)
        P2 == IF tsChanged
              THEN [P1 EXCEPT !.tsCodeRef = ts, !.realtimeBar = Null]
              ELSE P1
        P3 == [P2 EXCEPT !.tsCode = ts, !.enabled = en,
                         !.returned = [tsCode |-> ts,
                                       realtimeBar |-> P.realtimeBar]]
    IN IF ~en \/ ts = Null
       THEN [P3 EXCEPT !.isTrading = FALSE]
       ELSE [tick(P3, ts) EXCEPT !.interval = ts]

SetProps(ts, en) ==
    /\ <<ts, en>> # <<poll.tsCode, poll.enabled>>
    /\ Len(render(poll, ts, en).requests) <= MaxOutstanding
    /\ poll' = render(poll, ts, en)
    /\ UNCHANGED <<fetchVars, analysisVars, calcVars, mainVars>>

\* setInterval(tick, 1000) fires
Tick ==
    /\ poll.interval # Null
    /\ Len(tick(poll, poll.interval).requests) <= MaxOutstanding
    /\ poll' = tick(poll, poll.interval)
    /\ UNCHANGED <<fetchVars, analysisVars, calcVars, mainVars>>

removeAt(seq, i) == SubSeq(seq, 1, i - 1) \o SubSeq(seq, i + 1, Len(seq))

\* refreshRealtimeBar answers the i-th outstanding request; ok: success with data
PollRespond(i, ok) ==
    /\ i \in 1..Len(poll.requests)
    /\ LET r == poll.requests[i]
           P1 == [poll EXCEPT !.requests = removeAt(@, i)]
           P2 == IF ok /\ poll.tsCodeRef = r.closure
                 THEN [P1 EXCEPT !.realtimeBar = r.subject]
                 ELSE P1
       IN poll' = [P2 EXCEPT !.isFetchingRef = FALSE]
    /\ UNCHANGED <<fetchVars, analysisVars, calcVars, mainVars>>

\* the wall clock moves
WallClock(d, m) ==
    /\ <<d, m>> # <<poll.utcDay, poll.utcMin>>
    /\ poll' = [poll EXCEPT !.utcDay = d, !.utcMin = m]
    /\ UNCHANGED <<fetchVars, analysisVars, calcVars, mainVars>>

(***************************************************************************)
(* Numbers of the analysis engine                                          *)
(*                                                                         *)
(* A JavaScript number is modelled in fixed point: the integer v stands    *)
(* for v / SCALE. Volumes are plain integers. An array element that may be *)
(* null is <<>> (null) or <<v>>.  A division whose divisor may be zero     *)
(* yields NaN or Infinity as JavaScript's does (Float below).              *)
(***************************************************************************)
SCALE == 1000
FINE == 100           \* the Wilder averages of calcRSI are kept at SCALE * FINE

NullV == <<>>
Some(v) == <<v>>
Val(o) == o[1]

Num(v) == [kind |-> "number", v |-> v]
NaN == [kind |-> "NaN", v |-> 0]
Infinity == [kind |-> "Infinity", v |-> 0]

\* a / b of two numbers >= 0
FloatDiv(a, b) ==
    IF b = 0 THEN (IF a = 0 THEN NaN ELSE Infinity)
    ELSE Num((a * SCALE) \div b)

\* Math.round(x * 10^d) / 10^d, unit = SCALE / 10^d
roundTo(x, unit) == ((2 * x + unit) \div (2 * unit)) * unit

FloatRound(f, unit) ==
    IF f.kind = "number" THEN Num(roundTo(f.v, unit)) ELSE f

\* for (i = from; i <= to; i++) state = body(state, i).  The range is split in
\* halves, and the first half is compared with the state it started from so
\* that TLC evaluates it before the second half: the evaluation stack stays
\* logarithmic in the length of the loop.
RECURSIVE forLoop(_, _, _, _)
forLoop(body(_, _), state, from, to) ==
    IF from > to THEN state
    ELSE IF from = to THEN body(state, from)
    ELSE LET mid == (from + to) \div 2
             half == forLoop(body, state, from, mid)
         IN IF half = state THEN forLoop(body, state, mid + 1, to)
            ELSE forLoop(body, half, mid + 1, to)

sumRange(values, from, to) ==
    forLoop(LAMBDA sum, j : sum + values[j], 0, from, to)

closesOf(data) == [i \in 1..Len(data) |-> data[i].close]

(***************************************************************************)
(* analysis/indicators.ts (index i of the source is i + 1 here)            *)
(***************************************************************************)
calcSMA(values, period) ==
    [i \in 1..Len(values) |->
        IF i < period THEN NullV
        ELSE Some(sumRange(values, i - period + 1, i) \div period)]

\* ema = (values[i] - ema) * (2 / (period + 1)) + ema
emaStep(values, period, st, i) ==
    IF i < period THEN [ema |-> st.ema, result |-> Append(st.result, NullV)]
    ELSE IF i = period
    THEN LET seed == sumRange(values, 1, period) \div period
         IN [ema |-> seed, result |-> Append(st.result, Some(seed))]
    ELSE LET e == ((values[i] - st.ema) * 2) \div (period + 1) + st.ema
         IN [ema |-> e, result |-> Append(st.result, Some(e))]

calcEMA(values, period) ==
    forLoop(LAMBDA st, i : emaStep(values, period, st, i),
            [ema |-> 0, result |-> <<>>], 1, Len(values)).result

calcMA(data) ==
    LET closes == closesOf(data) IN
    [ma5 |-> calcSMA(closes, 5), ma10 |-> calcSMA(closes, 10),
     ma20 |-> calcSMA(closes, 20), ma60 |-> calcSMA(closes, 60)]

\* arr.filter((v) => v !== null)
validOf(arr) ==
    LET kept == SelectSeq(arr, LAMBDA v : v # NullV)
    IN [i \in 1..Len(kept) |-> Val(kept[i])]

\* calcMACD's re-alignment of DEA with the full array
alignStep(dif, deaRaw, st, i) ==
    IF dif[i] = NullV
    THEN [deaIdx |-> st.deaIdx, dea |-> Append(st.dea, NullV),
          histogram |-> Append(st.histogram, NullV)]
    ELSE LET deaVal == IF st.deaIdx <= Len(deaRaw) THEN deaRaw[st.deaIdx] ELSE NullV
         IN [deaIdx |-> st.deaIdx + 1, dea |-> Append(st.dea, deaVal),
             histogram |-> Append(st.histogram,
                                  IF deaVal # NullV
                                  THEN Some((Val(dif[i]) - Val(deaVal)) * 2)
                                  ELSE NullV)]

calcMACD(data, fastPeriod, slowPeriod, signalPeriod) ==
    LET closes == closesOf(data)
        emaFast == calcEMA(closes, fastPeriod)
        emaSlow == calcEMA(closes, slowPeriod)
        dif == [i \in 1..Len(closes) |->
                  IF emaFast[i] # NullV /\ emaSlow[i] # NullV
                  THEN Some(Val(emaFast[i]) - Val(emaSlow[i]))
                  ELSE NullV]
        validDif == validOf(dif)
        deaRaw == calcEMA(validDif, signalPeriod)
        r == forLoop(LAMBDA st, i : alignStep(dif, deaRaw, st, i),
                     [deaIdx |-> 1, dea |-> <<>>, histogram |-> <<>>], 1, Len(dif))
    IN [dif |-> dif, dea |-> r.dea, histogram |-> r.histogram]

\* 100 - 100 / (1 + avgGain / avgLoss), avgLoss # 0
rsiValue(avgGain, avgLoss) ==
    IF avgLoss = 0 THEN 100 * SCALE
    ELSE 100 * SCALE - (100 * SCALE * SCALE) \div (SCALE + (avgGain * SCALE) \div avgLoss)

\* the loop over gains/losses; i, from 1, is the index into gains
rsiStep(closes, period, st, i) ==
    LET change == closes[i + 1] - closes[i]
        gain == (IF change > 0 THEN change ELSE 0) * FINE
        loss == (IF change < 0 THEN -change ELSE 0) * FINE
    IN IF i < period
       THEN [avgGain |-> st.avgGain + gain, avgLoss |-> st.avgLoss + loss,
             result |-> Append(st.result, NullV)]
       ELSE LET g == IF i = period THEN (st.avgGain + gain) \div period
                     ELSE (st.avgGain * (period - 1) + gain) \div period
                l == IF i = period THEN (st.avgLoss + loss) \div period
                     ELSE (st.avgLoss * (period - 1) + loss) \div period
            IN [avgGain |-> g, avgLoss |-> l,
                result |-> Append(st.result, Some(rsiValue(g, l)))]

calcRSI(data, period) ==
    LET closes == closesOf(data) IN
    forLoop(LAMBDA st, i : rsiStep(closes, period, st, i),
            [avgGain |-> 0, avgLoss |-> 0, result |-> <<NullV>>],
            1, Len(closes) - 1).result

maxHigh(data, from, to) ==
    forLoop(LAMBDA highestHigh, p : Max(highestHigh, data[p].high),
            data[from].high, from + 1, to)

minLow(data, from, to) ==
    forLoop(LAMBDA lowestLow, p : Min(lowestLow, data[p].low),
            data[from].low, from + 1, to)

kdjStep(data, period, st, i) ==
    IF i < period
    THEN [st EXCEPT !.k = Append(@, NullV), !.d = Append(@, NullV),
                    !.j = Append(@, NullV)]
    ELSE LET highestHigh == maxHigh(data, i - period + 1, i)
             lowestLow == minLow(data, i - period + 1, i)
             rsv == IF highestHigh = lowestLow THEN 50 * SCALE
                    ELSE (((data[i].close - lowestLow) * SCALE)
                             \div (highestHigh - lowestLow)) * 100
             curK == (2 * st.prevK + rsv) \div 3
             curD == (2 * st.prevD + curK) \div 3
             curJ == 3 * curK - 2 * curD
         IN [prevK |-> curK, prevD |-> curD, k |-> Append(st.k, Some(curK)),
             d |-> Append(st.d, Some(curD)), j |-> Append(st.j, Some(curJ))]

calcKDJ(data, period) ==
    LET r == forLoop(LAMBDA st, i : kdjStep(data, period, st, i),
                     [prevK |-> 50 * SCALE, prevD |-> 50 * SCALE,
                      k |-> <<>>, d |-> <<>>, j |-> <<>>], 1, Len(data))
    IN [k |-> r.k, d |-> r.d, j |-> r.j]

(***************************************************************************)
(* analysis/volume.ts                                                      *)
(***************************************************************************)
\* Math.sqrt(x), x >= 0, rounded down
RECURSIVE sqrtIn(_, _, _)
sqrtIn(x, lo, hi) ==
    IF lo >= hi THEN lo
    ELSE LET mid == (lo + hi + 1) \div 2
         IN IF mid * mid <= x THEN sqrtIn(x, mid, hi) ELSE sqrtIn(x, lo, mid - 1)

sqrt(x) == sqrtIn(x, 0, Min(x, 46340))

sumSqDiff(closes, mid, from, to) ==
    forLoop(LAMBDA sum, j : sum + (closes[j] - mid) * (closes[j] - mid),
            0, from, to)

\* multiplier * stdDev at index i
bollWidth(closes, mid, period, multiplier, i) ==
    multiplier * sqrt(sumSqDiff(closes, mid, i - period + 1, i) \div period)

bollOf(closes, middle, period, multiplier) ==
    [upper |-> [i \in 1..Len(closes) |->
                  IF middle[i] = NullV THEN NullV
                  ELSE Some(Val(middle[i])
                            + bollWidth(closes, Val(middle[i]), period,
                                        multiplier, i))],
     middle |-> middle,
     lower |-> [i \in 1..Len(closes) |->
                  IF middle[i] = NullV THEN NullV
                  ELSE Some(Val(middle[i])
                            - bollWidth(closes, Val(middle[i]), period,
                                        multiplier, i))]]

calcBOLL(data, period, multiplier) ==
    bollOf(closesOf(data), calcSMA(closesOf(data), period), period, multiplier)

obvStep(data, st, i) ==
    LET o == IF data[i].close > data[i - 1].close THEN st.obv + data[i].volume
             ELSE IF data[i].close < data[i - 1].close THEN st.obv - data[i].volume
             ELSE st.obv
    IN [obv |-> o, result |-> Append(st.result, Some(o))]

calcOBV(data) ==
    IF Len(data) = 0 THEN <<>>
    ELSE forLoop(LAMBDA st, i : obvStep(data, st, i),
                 [obv |-> data[1].volume, result |-> <<Some(data[1].volume)>>],
                 2, Len(data)).result

\* (data[j].high + data[j].low + data[j].close) / 3
typicalPrice(bar) == (bar.high + bar.low + bar.close) \div 3

sumPV(data, from, to) ==
    forLoop(LAMBDA sum, j : sum + typicalPrice(data[j]) * data[j].volume,
            0, from, to)

sumV(data, from, to) ==
    forLoop(LAMBDA sum, j : sum + data[j].volume, 0, from, to)

calcVWAP(data, period) ==
    [i \in 1..Len(data) |->
        IF i < period THEN NullV
        ELSE LET v == sumV(data, i - period + 1, i)
             IN IF v = 0 THEN NullV
                ELSE Some(sumPV(data, i - period + 1, i) \div v)]

\* counts of rises and falls between neighbours of recent
countMoves(recent) ==
    forLoop(LAMBDA c, i :
                IF recent[i] > recent[i - 1] THEN [c EXCEPT !.up = @ + 1]
                ELSE IF recent[i] < recent[i - 1] THEN [c EXCEPT !.down = @ + 1]
                ELSE c,
            [up |-> 0, down |-> 0], 2, Len(recent))

\* upCount > downCount * 1.5 is 2 * upCount > 3 * downCount
getOBVTrend(obv, lookback) ==
    LET valid == validOf(obv) IN
    IF Len(valid) < lookback THEN 0
    ELSE LET recent == SubSeq(valid, Len(valid) - lookback + 1, Len(valid))
             c == countMoves(recent)
         IN IF 2 * c.up > 3 * c.down THEN 1
            ELSE IF 2 * c.down > 3 * c.up THEN -1
            ELSE 0

(***************************************************************************)
(* analysis/atr.ts                                                         *)
(***************************************************************************)
trueRange(data, i) ==
    IF i = 1 THEN data[1].high - data[1].low
    ELSE Max(data[i].high - data[i].low,
             Max(Abs(data[i].high - data[i - 1].close),
                 Abs(data[i].low - data[i - 1].close)))

atrStep(trueRanges, period, st, i) ==
    IF i < period THEN [atr |-> st.atr, result |-> Append(st.result, NullV)]
    ELSE LET a == IF i = period THEN sumRange(trueRanges, 1, period) \div period
                  ELSE (st.atr * (period - 1) + trueRanges[i]) \div period
         IN [atr |-> a, result |-> Append(st.result, Some(a))]

calcATR(data, period) ==
    IF Len(data) < 2 THEN [i \in 1..Len(data) |-> NullV]
    ELSE LET trueRanges == [i \in 1..Len(data) |-> trueRange(data, i)]
         IN forLoop(LAMBDA st, i : atrStep(trueRanges, period, st, i),
                    [atr |-> 0, result |-> <<>>], 1, Len(trueRanges)).result

\* calcATRStopLoss with the test "lastATR === null" written as "!lastATR"
calcATRStopLoss_falsyATR(data, atrMultiplier, atrPeriod) ==
    LET atrValues == calcATR(data, atrPeriod) IN
    IF Len(data) = 0 THEN NullV
    ELSE IF atrValues[Len(atrValues)] = NullV \/ atrValues[Len(atrValues)] = Some(0)
    THEN NullV
    ELSE LET lastATR == Val(atrValues[Len(atrValues)])
             lastClose == data[Len(data)].close
         IN Some([longStopLoss |-> lastClose - lastATR * atrMultiplier,
                  shortStopLoss |-> lastClose + lastATR * atrMultiplier,
                  atrValue |-> lastATR])

\* null, or the stops
calcATRStopLoss(data, atrMultiplier, atrPeriod) ==
    LET atrValues == calcATR(data, atrPeriod) IN
    IF Len(data) = 0 THEN NullV
    ELSE IF atrValues[Len(atrValues)] = NullV THEN NullV
    ELSE LET lastATR == Val(atrValues[Len(atrValues)])
             lastClose == data[Len(data)].close
         IN Some([longStopLoss |-> lastClose - lastATR * atrMultiplier,
                  shortStopLoss |-> lastClose + lastATR * atrMultiplier,
                  atrValue |-> lastATR])

\* riskPercentage = 0.02 is RISK_PCT / SCALE; the 25% cap is POSITION_CAP / SCALE
RISK_PCT == 20
POSITION_CAP == 250

calcPositionSize(entryPrice, stopLoss, riskPercentage) ==
    LET riskPerShare == Abs(entryPrice - stopLoss) IN
    IF riskPerShare = 0 THEN 0
    ELSE Min((((riskPercentage * entryPrice) \div SCALE) * SCALE) \div riskPerShare,
             POSITION_CAP)


(***************************************************************************)
(* analysis/supportResistance.ts                                           *)
(***************************************************************************)
isPivotHigh(data, i, lookback) ==
    \A j \in (i - lookback)..(i + lookback) : j = i \/ data[j].high < data[i].high

isPivotLow(data, i, lookback) ==
    \A j \in (i - lookback)..(i + lookback) : j = i \/ data[j].low > data[i].low

\* the pivots in the order the loop pushes them
pivotStep(data, lookback, pivots, i) ==
    pivots
    \o (IF isPivotHigh(data, i, lookback)
        THEN <<[index |-> i, price |-> data[i].high, type |-> "high"]>> ELSE <<>>)
    \o (IF isPivotLow(data, i, lookback)
        THEN <<[index |-> i, price |-> data[i].low, type |-> "low"]>> ELSE <<>>)

findPivots(data, lookback) ==
    forLoop(LAMBDA pivots, i : pivotStep(data, lookback, pivots, i),
            <<>>, lookback + 1, Len(data) - lookback)

pricesOf(pivots, type) ==
    LET kept == SelectSeq(pivots, LAMBDA p : p.type = type)
    IN [i \in 1..Len(kept) |-> kept[i].price]

\* [...values].sort((a, b) => a - b)
sortAsc(values) == SortSeq(values, LAMBDA a, b : a < b)

reverse(values) == [i \in 1..Len(values) |-> values[Len(values) + 1 - i]]

sumOf(values) == sumRange(values, 1, Len(values))

\* |x - avg| / avg < tolerance with avg = sum / len, tolerance = tol / SCALE
nearCluster(x, cluster, tol) ==
    Abs(x * Len(cluster) - sumOf(cluster)) * SCALE < tol * sumOf(cluster)

clusterStep(sorted, tol, clusters, i) ==
    LET lastCluster == clusters[Len(clusters)] IN
    IF nearCluster(sorted[i], lastCluster, tol)
    THEN [clusters EXCEPT ![Len(clusters)] = Append(lastCluster, sorted[i])]
    ELSE Append(clusters, <<sorted[i]>>)

\* clusterAverages keeping the clusters of a single price
clusterAverages_single(clusters) ==
    LET kept == SelectSeq(clusters, LAMBDA c : Len(c) >= 1)
    IN [i \in 1..Len(kept) |-> sumOf(kept[i]) \div Len(kept[i])]

\* .filter((c) => c.length >= 2).map(average)
clusterAverages(clusters) ==
    LET kept == SelectSeq(clusters, LAMBDA c : Len(c) >= 2)
    IN [i \in 1..Len(kept) |-> sumOf(kept[i]) \div Len(kept[i])]

clusterPriceLevels(prices, tolerance) ==
    IF Len(prices) = 0 THEN <<>>
    ELSE LET sorted == sortAsc(prices)
             clusters == forLoop(LAMBDA cs, i : clusterStep(sorted, tolerance, cs, i),
                                 <<(<<sorted[1]>>)>>, 2, Len(sorted))
         IN sortAsc(clusterAverages(clusters))

filterBelow(levels, price) == SelectSeq(levels, LAMBDA level : level < price)

filterAbove(levels, price) == SelectSeq(levels, LAMBDA level : level > price)

slice3(levels) == SubSeq(levels, 1, Min(3, Len(levels)))

SR_LOOKBACK == 5
SR_TOLERANCE == 15      \* 0.015

calcSupportResistance(data, lookback, tolerance) ==
    IF Len(data) < lookback * 3 THEN [support |-> <<>>, resistance |-> <<>>]
    ELSE LET pivots == findPivots(data, lookback)
             currentPrice == data[Len(data)].close
             highPrices == pricesOf(pivots, "high")
             lowPrices == pricesOf(pivots, "low")
             allLevels == clusterPriceLevels(highPrices \o lowPrices, tolerance)
         IN [support |-> slice3(reverse(filterBelow(allLevels, currentPrice))),
             resistance |-> slice3(filterAbove(allLevels, currentPrice))]

SR_NEAR == 20           \* 0.02

\* dist / currentPrice < 0.02 && dist / currentPrice >= 0, currentPrice > 0
isNear(dist, currentPrice) ==
    dist * SCALE < SR_NEAR * currentPrice /\ dist >= 0

calcSRScore(currentPrice, sr, volumeIncreasing) ==
    IF Len(sr.support) = 0 /\ Len(sr.resistance) = 0 THEN 0
    ELSE LET s1 == IF Len(sr.support) > 0
                      /\ isNear(currentPrice - sr.support[1], currentPrice)
                   THEN (IF volumeIncreasing THEN 10 ELSE 5) ELSE 0
             s2 == IF Len(sr.resistance) > 0
                      /\ isNear(sr.resistance[1] - currentPrice, currentPrice)
                   THEN (IF volumeIncreasing THEN 5 ELSE 10) ELSE 0
         IN Max(-10, Min(10, s1 - s2))

(***************************************************************************)
(* analysis/signalEngine.ts                                                *)
(***************************************************************************)
lastValid(arr) ==
    LET valid == validOf(arr) IN
    IF valid = <<>> THEN NullV ELSE Some(valid[Len(valid)])

lastN(arr, n) ==
    LET valid == validOf(arr) IN
    SubSeq(valid, Max(1, Len(valid) - n + 1), Len(valid))

\* the MA alignment part of calcTrendScore, on the last valid averages
maScore(ma5, ma10, ma20) ==
    IF ma5 # NullV /\ ma10 # NullV /\ ma20 # NullV
    THEN IF Val(ma5) > Val(ma10) /\ Val(ma10) > Val(ma20) THEN 20
         ELSE IF Val(ma5) < Val(ma10) /\ Val(ma10) < Val(ma20) THEN -20
         ELSE IF Val(ma5) > Val(ma10) THEN 10
         ELSE IF Val(ma5) < Val(ma10) THEN -10
         ELSE 0
    ELSE 0

maOf(ma) == maScore(lastValid(ma.ma5), lastValid(ma.ma10), lastValid(ma.ma20))

maAlignment(data) == maOf(calcMA(data))

\* the MACD part of calcTrendScore, on the last three valid values
\* macdScore comparing the current DIF with the previous bar's DEA
macdScore_staleDEA(lastDIF, lastDEA, lastHist) ==
    IF Len(lastDIF) >= 2 /\ Len(lastDEA) >= 2
    THEN LET prevDIF == lastDIF[Len(lastDIF) - 1]
             currDIF == lastDIF[Len(lastDIF)]
             prevDEA == lastDEA[Len(lastDEA) - 1]
         IN IF prevDIF <= prevDEA /\ currDIF > prevDEA THEN 20
            ELSE IF prevDIF >= prevDEA /\ currDIF < prevDEA THEN -20
            ELSE 0
    ELSE 0

macdScore(lastDIF, lastDEA, lastHist) ==
    IF Len(lastDIF) >= 2 /\ Len(lastDEA) >= 2
    THEN LET prevDIF == lastDIF[Len(lastDIF) - 1]
             currDIF == lastDIF[Len(lastDIF)]
             prevDEA == lastDEA[Len(lastDEA) - 1]
             currDEA == lastDEA[Len(lastDEA)]
         IN IF prevDIF <= prevDEA /\ currDIF > currDEA THEN 20
            ELSE IF prevDIF >= prevDEA /\ currDIF < currDEA THEN -20
            ELSE IF Len(lastHist) >= 2
            THEN LET histTrend == lastHist[Len(lastHist)] - lastHist[Len(lastHist) - 1]
                 IN IF histTrend > 0 /\ currDIF > currDEA THEN 10
                    ELSE IF histTrend < 0 /\ currDIF < currDEA THEN -10
                    ELSE 0
            ELSE 0
    ELSE 0

macdOf(macd) ==
    macdScore(lastN(macd.dif, 3), lastN(macd.dea, 3), lastN(macd.histogram, 3))

macdSignal(data) == macdOf(calcMACD(data, 12, 26, 9))

\* calcTrendScore with the MACD signal counted twice and the clamp left out
calcTrendScore_unclamped(data) == maAlignment(data) + 2 * macdSignal(data)

calcTrendScore(data) == Max(-40, Min(40, maAlignment(data) + macdSignal(data)))

\* the RSI part of calcOscillatorScore, on the last three valid values
rsiScore(lastRSI) ==
    IF Len(lastRSI) >= 2
    THEN LET currRSI == lastRSI[Len(lastRSI)]
             prevRSI == lastRSI[Len(lastRSI) - 1]
         IN IF currRSI < 30 * SCALE /\ currRSI > prevRSI THEN 15
            ELSE IF currRSI > 70 * SCALE /\ currRSI < prevRSI THEN -15
            ELSE IF currRSI < 40 * SCALE /\ currRSI > prevRSI THEN 8
            ELSE IF currRSI > 60 * SCALE /\ currRSI < prevRSI THEN -8
            ELSE 0
    ELSE 0

rsiSignal(data) == rsiScore(lastN(calcRSI(data, 14), 3))

\* the KDJ part of calcOscillatorScore, on the last three valid values
kdjScore(lastK, lastD) ==
    IF Len(lastK) >= 2 /\ Len(lastD) >= 2
    THEN LET prevK == lastK[Len(lastK) - 1]
             currK == lastK[Len(lastK)]
             prevD == lastD[Len(lastD) - 1]
             currD == lastD[Len(lastD)]
         IN IF prevK <= prevD /\ currK > currD /\ currK < 30 * SCALE THEN 15
            ELSE IF prevK >= prevD /\ currK < currD /\ currK > 70 * SCALE THEN -15
            ELSE IF prevK <= prevD /\ currK > currD THEN 8
            ELSE IF prevK >= prevD /\ currK < currD THEN -8
            ELSE 0
    ELSE 0

kdjOf(kdj) == kdjScore(lastN(kdj.k, 3), lastN(kdj.d, 3))

kdjSignal(data) == kdjOf(calcKDJ(data, 9))

calcOscillatorScore(data) == Max(-30, Min(30, rsiSignal(data) + kdjSignal(data)))

obvSignal(data) ==
    LET obvTrend == getOBVTrend(calcOBV(data), 10)
        priceUp == Len(data) >= 2 /\ data[Len(data)].close > data[Len(data) - 1].close
    IN IF obvTrend = 1 /\ priceUp THEN 10
       ELSE IF obvTrend = -1 /\ ~priceUp THEN -10
       ELSE IF obvTrend = 1 /\ ~priceUp THEN 5
       ELSE IF obvTrend = -1 /\ priceUp THEN -5
       ELSE 0

vwapSignal(data) ==
    LET lastVWAP == lastValid(calcVWAP(data, 20))
        currentPrice == data[Len(data)].close
    IN IF lastVWAP # NullV
       THEN (IF currentPrice > Val(lastVWAP) THEN 10 ELSE -10)
       ELSE 0

calcVolumeScore(data) == Max(-20, Min(20, obvSignal(data) + vwapSignal(data)))

\* classifySignal with the thresholds written >=
classifySignal_inclusive(total) ==
    IF total >= 60 THEN "strong_buy"
    ELSE IF total >= 30 THEN "buy"
    ELSE IF total >= -30 THEN "neutral"
    ELSE IF total >= -60 THEN "sell"
    ELSE "strong_sell"

classifySignal(total) ==
    IF total > 60 THEN "strong_buy"
    ELSE IF total > 30 THEN "buy"
    ELSE IF total > -30 THEN "neutral"
    ELSE IF total > -60 THEN "sell"
    ELSE "strong_sell"


\* generateTradePlan from "if (!atrStop) return null" on: null, or the plan
planFrom(currentPrice, atrStop, signal, sr) ==
    IF atrStop = NullV THEN NullV
    ELSE LET isBullish == signal.total > 0
             stopLoss == IF isBullish THEN Val(atrStop).longStopLoss
                         ELSE Val(atrStop).shortStopLoss
             riskAmount == IF isBullish THEN currentPrice - stopLoss
                           ELSE stopLoss - currentPrice
             targetPrice ==
                 IF isBullish
                 THEN (IF Len(sr.resistance) > 0
                          /\ sr.resistance[1] > currentPrice + riskAmount
                       THEN sr.resistance[1]
                       ELSE currentPrice + riskAmount * 2)
                 ELSE (IF Len(sr.support) > 0
                          /\ sr.support[1] < currentPrice - riskAmount
                       THEN sr.support[1]
                       ELSE currentPrice - riskAmount * 2)
             riskRewardRatio == FloatDiv(Abs(targetPrice - currentPrice),
                                         Abs(currentPrice - stopLoss))
             positionSizePct == calcPositionSize(currentPrice, stopLoss, RISK_PCT) * 100
         IN Some([entryPrice |-> currentPrice,
                  stopLoss |-> roundTo(stopLoss, SCALE \div 100),
                  targetPrice |-> roundTo(targetPrice, SCALE \div 100),
                  riskRewardRatio |-> FloatRound(riskRewardRatio, SCALE \div 100),
                  positionSizePct |-> roundTo(positionSizePct, SCALE \div 10),
                  atrValue |-> roundTo(Val(atrStop).atrValue, SCALE \div 1000),
                  direction |-> IF isBullish THEN "long" ELSE "short"])

\* null, or the plan
generateTradePlan(data, signal, sr) ==
    IF signal.level = "neutral" THEN NullV
    ELSE planFrom(data[Len(data)].close, calcATRStopLoss(data, 2, 14), signal, sr)

MIN_BARS == 60

\* data[length - 1].volume > (data[length - 2].volume + data[length - 3].volume) / 2
volumeIncreasing(data) ==
    Len(data) >= 5
    /\ 2 * data[Len(data)].volume
         > data[Len(data) - 1].volume + data[Len(data) - 2].volume

\* the SignalScore of runAnalysis
signalFrom(trendScore, oscillatorScore, volumeScore, srScore, total) ==
    [total |-> total,
     trend |-> trendScore, trendMax |-> 40,
     oscillator |-> oscillatorScore, oscillatorMax |-> 30,
     volume |-> volumeScore, volumeMax |-> 20,
     supportResistance |-> srScore, supportResistanceMax |-> 10,
     level |-> classifySignal(total)]

\* the AnalysisResult of runAnalysis (its indicators field is not modelled)
resultFrom(data, signal, sr) ==
    [signal |-> signal,
     tradePlan |-> generateTradePlan(data, signal, sr),
     supportLevels |-> sr.support,
     resistanceLevels |-> sr.resistance]

\* runAnalysis from the dimension scores and the levels on
scored(data, trendScore, oscillatorScore, volumeScore, sr, srScore) ==
    resultFrom(data,
               signalFrom(trendScore, oscillatorScore, volumeScore, srScore,
                          trendScore + oscillatorScore + volumeScore + srScore),
               sr)

withLevels(data, trendScore, oscillatorScore, volumeScore, sr) ==
    scored(data, trendScore, oscillatorScore, volumeScore, sr,
           calcSRScore(data[Len(data)].close, sr, volumeIncreasing(data)))

\* runAnalysis refusing 60 bars as well
runAnalysis_floor61(data) ==
    IF Len(data) <= MIN_BARS THEN NullV
    ELSE Some(withLevels(data, calcTrendScore(data), calcOscillatorScore(data),
                         calcVolumeScore(data),
                         calcSupportResistance(data, SR_LOOKBACK, SR_TOLERANCE)))

\* null, or the result
runAnalysis(data) ==
    IF Len(data) < MIN_BARS THEN NullV
    ELSE Some(withLevels(data, calcTrendScore(data), calcOscillatorScore(data),
                         calcVolumeScore(data),
                         calcSupportResistance(data, SR_LOOKBACK, SR_TOLERANCE)))

(***************************************************************************)
(* hooks/useAnalysis.ts                                                    *)
(***************************************************************************)
useAnalysis(data) ==
    IF Len(data) < MIN_BARS THEN NullV ELSE runAnalysis(data)


(***************************************************************************)
(* Price series handed to the analysis (shared/types.ts KLineData).        *)
(* The renderer does not validate bars, so the family holds series whose   *)
(* bars respect low <= open, close <= high ("band") and series of a feed   *)
(* that repeats the previous close as open, high and low ("stale").        *)
(***************************************************************************)
MaxBars == 61

Shapes == {"flat", "up", "down", "accelUp", "accelDown", "wave", "waveUp", "vee", "cap"}
Steps == {20, 150}
RangeModes == {"band", "stale"}
VolumePatterns == {"const", "rising", "falling", "spike"}
Lengths == {59, 60}

triangle(i) == Abs((i % 12) - 6)

closeAt(shape, step, i) ==
    CASE shape = "flat" -> 10000
      [] shape = "up" -> 10000 + step * i
      [] shape = "down" -> 20000 - step * i
      [] shape = "accelUp" -> 10000 + (step \div 10) * ((i * i) \div 4)
      [] shape = "accelDown" -> 25000 - (step \div 10) * ((i * i) \div 4)
      [] shape = "wave" -> 10000 + step * triangle(i)
      [] shape = "waveUp" -> 10000 + step * triangle(i) + (step \div 10) * i
      [] shape = "vee" -> 10000 + step * Abs(i - 50)
      [] shape = "cap" -> 20000 - step * Abs(i - 50)

volumeAt(pattern, i, n) ==
    CASE pattern = "const" -> 100
      [] pattern = "rising" -> 50 + i
      [] pattern = "falling" -> 150 - i
      [] pattern = "spike" -> IF i = n THEN 400 ELSE 100

BAND == 30

makeBar(mode, prevClose, close, volume) ==
    IF mode = "band"
    THEN [open |-> prevClose, high |-> Max(prevClose, close) + BAND,
          low |-> Min(prevClose, close) - BAND, close |-> close, volume |-> volume]
    ELSE [open |-> prevClose, high |-> prevClose, low |-> prevClose,
          close |-> close, volume |-> volume]

series(shape, step, mode, pattern, n) ==
    [i \in 1..n |->
        makeBar(mode, closeAt(shape, step, IF i = 1 THEN 1 ELSE i - 1),
                closeAt(shape, step, i), volumeAt(pattern, i, n))]

\* 60 bars of close = 100, open = 100, high = 101, low = 99, volume = 1000
flatScenario ==
    [i \in 1..60 |-> [open |-> 100 * SCALE, high |-> 101 * SCALE,
                      low |-> 99 * SCALE, close |-> 100 * SCALE, volume |-> 1000]]

InputSeries ==
    {series(shape, step, mode, pattern, n) :
        shape \in Shapes, step \in Steps, mode \in RangeModes,
        pattern \in VolumePatterns, n \in Lengths}
    \cup {flatScenario}

\* the bars that may follow a series
nextBars(data) ==
    IF data = <<>> THEN {}
    ELSE LET last == data[Len(data)] IN
         {makeBar(mode, last.close, last.close + d, last.volume) :
             mode \in RangeModes, d \in {-150, 0, 150}}

\* useStockData's data reaches useAnalysis on the render that follows setData
LoadSeries(s) ==
    /\ bars = <<>>
    /\ bars' = s
    /\ analysis' = useAnalysis(s)
    /\ UNCHANGED <<fetchVars, pollVars, calcVars, mainVars>>

\* a refreshed series with one more bar
NextBar(b) ==
    /\ bars # <<>>
    /\ Len(bars) < MaxBars
    /\ bars' = Append(bars, b)
    /\ analysis' = useAnalysis(bars')
    /\ UNCHANGED <<fetchVars, pollVars, calcVars, mainVars>>

(***************************************************************************)
(* The main process after registerIpcHandlers(), with a token configured   *)
(***************************************************************************)
MaxMarket == 2      \* get-market-overview invocations
MaxBuilds == 2      \* buildProfiles runs
MaxToken == 2       \* tokens are numbered; 0 is no token
MaxInvocations == 3 \* IPC invocations of the main process in one run

Queries == 1..MaxMarket
Builds == 1..MaxBuilds

idleRequest == [pc |-> "idle", key |-> NoKey, token |-> 0, reply |-> "none",
                fromCache |-> FALSE, dataToken |-> 0, tokenAtReply |-> 0,
                fetchedAt |-> NoTime]

idleQuery == [pc |-> "idle", date |-> "", token |-> 0, reply |-> "none",
              fromCache |-> FALSE, dataToken |-> 0, tokenAtReply |-> 0,
              failed |-> {}]

mainInit ==
    [token |-> 1,
     klineCache |-> <<>>,                          \* klineCache, a Map
     kline |-> [c \in Calls |-> idleRequest],      \* get-kline-data invocations
     marketCache |-> <<>>,                         \* marketCache, a Map
     market |-> [q \in Queries |-> idleQuery],     \* get-market-overview invocations
     profileCache |-> 0,           \* the token the profiles were built under, 0: empty
     profileCacheDate |-> "",
     profileBuildPromise |-> 0,    \* the build whose promise it holds, 0: null
     builds |-> [b \in Builds |-> [pc |-> "idle", token |-> 0]],
     profileRead |-> [token |-> 0, tokenAtRead |-> 0],
     invocations |-> 0]


InitFetch ==
    /\ now = 0
    /\ advances = 0
    /\ dataCache = [k \in Keys |-> NoEntry]
    /\ inflightRequests = [k \in Keys |-> NoPromise]
    /\ calls = [c \in Calls |-> idleCall]
    /\ hook = hookInit
    /\ selectedStock = Null
    /\ timeframe = "daily"
    /\ hasToken = FALSE
    /\ poll = pollInit
    /\ bars = <<>>
    /\ analysis = NullV
    /\ calc = NoCalc
    /\ main = mainInit

NextFetch ==
    \/ \E s \in Stocks : SelectStock(s)
    \/ \E tf \in Timeframes : SetTimeframe(tf)
    \/ Refresh
    \/ TokenFound
    \/ TokenSaved
    \/ \E c \in Calls : RespondOk(c)
    \/ \E c \in Calls, raw \in RawErrors : RespondError(c, raw)
    \/ \E c \in Calls : Wake(c)
    \/ \E t \in Instants : Advance(t)

SpecFetch == InitFetch /\ [][NextFetch]_vars

InitPoll == InitFetch

NextPoll ==
    \/ \E ts \in Stocks \cup {Null}, en \in BOOLEAN : SetProps(ts, en)
    \/ Tick
    \/ \E i \in 1..MaxOutstanding, ok \in BOOLEAN : PollRespond(i, ok)
    \/ \E d \in UtcDays, m \in UtcMinutes : WallClock(d, m)

SpecPoll == InitPoll /\ [][NextPoll]_vars

InitAnalysis == InitFetch

NextAnalysis ==
    \/ \E s \in InputSeries : LoadSeries(s)
    \/ \E b \in nextBars(bars) : NextBar(b)

SpecAnalysis == InitAnalysis /\ [][NextAnalysis]_vars

(***************************************************************************)
(* analysis/sentimentEngine.ts.  A component value v stands for v / SCALE, *)
(* a weight w for w / WEIGHT_UNIT, pct_chg p for p / SCALE per cent.       *)
(***************************************************************************)
WEIGHT_UNIT == 100

clamp(value, min, max) == Max(min, Min(max, value))

scoreAdvanceDecline(overview) ==
    LET b == overview.breadth
        total == b.advanceCount + b.declineCount + b.flatCount
    IN IF total = 0 THEN 50 * SCALE
       ELSE clamp((b.advanceCount * 100 * SCALE) \div total, 0, 100 * SCALE)

\* rate / 0.03 * 100
scoreLimitUp(overview) ==
    LET b == overview.breadth IN
    IF b.totalCount = 0 THEN 0
    ELSE clamp((b.limitUpCount * 100 * 100 * SCALE) \div (3 * b.totalCount),
               0, 100 * SCALE)

\* scoreLimitDown without its clamp
scoreLimitDown_unclamped(overview) ==
    LET b == overview.breadth IN
    IF b.totalCount = 0 THEN 100 * SCALE
    ELSE 100 * SCALE
            - (b.limitDownCount * 100 * 100 * SCALE) \div (3 * b.totalCount)

scoreLimitDown(overview) ==
    LET b == overview.breadth IN
    IF b.totalCount = 0 THEN 100 * SCALE
    ELSE clamp(100 * SCALE
                 - (b.limitDownCount * 100 * 100 * SCALE) \div (3 * b.totalCount),
               0, 100 * SCALE)

\* (avgChg + 3) / 6 * 100
scoreIndexTrend(overview) ==
    LET n == Len(overview.indices) IN
    IF n = 0 THEN 50 * SCALE
    ELSE LET avgChg == forLoop(LAMBDA sum, i : sum + overview.indices[i].pct_chg,
                               0, 1, n) \div n
         IN clamp(((avgChg + 3 * SCALE) * 100) \div 6, 0, 100 * SCALE)

\* (flow + 10000) / 20000 * 100
scoreNorthbound(overview) ==
    LET n == Len(overview.northbound) IN
    IF n = 0 THEN 50 * SCALE
    ELSE clamp(((overview.northbound[n].northMoney + 10000) * SCALE) \div 200,
               0, 100 * SCALE)

scoreVolume(overview) ==
    IF Len(overview.indices) = 0 THEN 50 * SCALE
    ELSE IF overview.indices[1].vol = 0 THEN 50 * SCALE
    ELSE 50 * SCALE

classifySentiment(score) ==
    IF score >= 80 THEN "hot"
    ELSE IF score >= 60 THEN "warm"
    ELSE IF score >= 40 THEN "neutral"
    ELSE IF score >= 20 THEN "cold"
    ELSE "freezing"

\* Math.round(components.reduce((sum, c) => sum + c.value * c.weight, 0))
sentimentOf(components) ==
    LET sum == forLoop(LAMBDA acc, i :
                           acc + components[i].value * components[i].weight,
                       0, 1, Len(components))
        total == roundTo(sum, SCALE * WEIGHT_UNIT) \div (SCALE * WEIGHT_UNIT)
    IN [total |-> total, level |-> classifySentiment(total),
        components |-> components]

computeSentiment(overview) ==
    sentimentOf(<<
        [name |-> "advanceDecline", value |-> scoreAdvanceDecline(overview),
         weight |-> 25],
        [name |-> "limitUp", value |-> scoreLimitUp(overview), weight |-> 15],
        [name |-> "limitDown", value |-> scoreLimitDown(overview), weight |-> 15],
        [name |-> "indexTrend", value |-> scoreIndexTrend(overview),
         weight |-> 20],
        [name |-> "northbound", value |-> scoreNorthbound(overview),
         weight |-> 15],
        [name |-> "volume", value |-> scoreVolume(overview), weight |-> 10]>>)

(***************************************************************************)
(* A JavaScript Map in insertion order: the sequence of its entries, each  *)
(* a record with a key field.  set() of a present key keeps its position.  *)
(***************************************************************************)
mapKeys(entries) == {entries[i].key : i \in 1..Len(entries)}

mapHas(entries, key) == key \in mapKeys(entries)

mapGet(entries, key) ==
    entries[CHOOSE i \in 1..Len(entries) : entries[i].key = key]

mapSet(entries, entry) ==
    IF mapHas(entries, entry.key)
    THEN [i \in 1..Len(entries) |->
            IF entries[i].key = entry.key THEN entry ELSE entries[i]]
    ELSE Append(entries, entry)

mapDelete(entries, key) == SelectSeq(entries, LAMBDA e : e.key # key)

\* the keys of the first count entries of
\* Array.from(map.entries()).sort((a, b) => a[1].timestamp - b[1].timestamp):
\* the sort is stable, so among equal timestamps the earlier insertion is first
RECURSIVE oldestFirst(_, _)
oldestFirst(entries, count) ==
    IF count = 0 \/ entries = <<>> THEN {}
    ELSE LET i == CHOOSE x \in 1..Len(entries) :
                     /\ \A y \in 1..Len(entries) :
                            entries[x].timestamp <= entries[y].timestamp
                     /\ \A y \in 1..(x - 1) :
                            entries[y].timestamp > entries[x].timestamp
         IN {entries[i].key}
            \cup oldestFirst(mapDelete(entries, entries[i].key), count - 1)

\* the eviction taking the first count entries of the Map as they are
insertEvicting_unsorted(entries, entry, max, count) ==
    LET e1 == mapSet(entries, entry) IN
    IF Len(e1) > max
    THEN SubSeq(e1, count + 1, Len(e1))
    ELSE e1

\* map.set(entry.key, entry), then the eviction of count entries above max
insertEvicting(entries, entry, max, count) ==
    LET e1 == mapSet(entries, entry) IN
    IF Len(e1) > max
    THEN LET old == oldestFirst(e1, count)
         IN SelectSeq(e1, LAMBDA e : e.key \notin old)
    ELSE e1

\* setCachedData(key, data, timeframe) on the Map in insertion order
setCachedDataOrdered(entries, key, d, tf, t) ==
    insertEvicting(entries,
                   [key |-> key, data |-> d, timestamp |-> t,
                    ttl |-> getCacheTTL(tf)],
                   CACHE_MAX, CACHE_EVICT)

(***************************************************************************)
(* main/ipc/handlers.ts: klineCache                                        *)
(***************************************************************************)
KLINE_TTL_DAILY == 120000
KLINE_TTL_5MIN == 60000
KLINE_TTL_DEFAULT == 300000
KLINE_CACHE_MAX == 100
KLINE_CACHE_EVICT == 20

\* CACHE_TTL[timeframe] || 5 * 60 * 1000
klineTTL(tf) ==
    CASE tf = "daily" -> KLINE_TTL_DAILY
      [] tf = "5min" -> KLINE_TTL_5MIN
      [] OTHER -> KLINE_TTL_DEFAULT

\* getCachedKLine(key, timeframe): what it returns and the Map it leaves
getCachedKLine(cache, key, tf, t) ==
    IF ~mapHas(cache, key) THEN [hit |-> FALSE, cache |-> cache]
    ELSE IF t - mapGet(cache, key).timestamp > klineTTL(tf)
    THEN [hit |-> FALSE, cache |-> mapDelete(cache, key)]
    ELSE [hit |-> TRUE, cache |-> cache]

setCachedKLine(cache, key, d, t) ==
    insertEvicting(cache, [key |-> key, data |-> d, timestamp |-> t],
                   KLINE_CACHE_MAX, KLINE_CACHE_EVICT)

(***************************************************************************)
(* main/market/marketData.ts: marketCache                                  *)
(***************************************************************************)
MARKET_CACHE_TTL == 1800000
MARKET_CACHE_MAX == 10

getCached(cache, date, t) ==
    IF ~mapHas(cache, date) THEN [hit |-> FALSE, cache |-> cache]
    ELSE IF t - mapGet(cache, date).timestamp > MARKET_CACHE_TTL
    THEN [hit |-> FALSE, cache |-> mapDelete(cache, date)]
    ELSE [hit |-> TRUE, cache |-> cache]

setCache(cache, date, d, t) ==
    insertEvicting(cache, [key |-> date, data |-> d, timestamp |-> t],
                   MARKET_CACHE_MAX, 1)

(***************************************************************************)
(* main/market/marketData.ts: fetchMarketOverview behind the               *)
(* get-market-overview handler.  An overview is the record of its trade    *)
(* date, the parts whose upstream fetch failed (each fetcher catches the   *)
(* failure and returns its default: [] or the all-zero breadth) and the    *)
(* token the fetches were sent with.                                       *)
(***************************************************************************)
OverviewParts == {"indices", "breadth", "northbound", "margin", "stats"}

\* the handler and fetchMarketOverview up to the await of Promise.all
marketStart(M, q, date, t) ==
    IF M.token = 0
    THEN [M EXCEPT !.market[q] = [idleQuery EXCEPT !.pc = "replied", !.date = date,
                                                   !.reply = "error"]]
    ELSE LET r == getCached(M.marketCache, date, t) IN
         IF r.hit
         THEN [M EXCEPT !.market[q] =
                 [idleQuery EXCEPT !.pc = "replied", !.date = date,
                                   !.reply = "success", !.fromCache = TRUE,
                                   !.dataToken = mapGet(M.marketCache, date).data.token,
                                   !.failed = mapGet(M.marketCache, date).data.failed,
                                   !.tokenAtReply = M.token]]
         ELSE [M EXCEPT !.marketCache = r.cache,
                        !.market[q] = [idleQuery EXCEPT !.pc = "fetching",
                                                        !.date = date,
                                                        !.token = M.token]]

\* the five fetchers have settled, those of failed with their default
marketFinish(M, q, failed, t) ==
    LET query == M.market[q]
        overview == [date |-> query.date, failed |-> failed, token |-> query.token]
    IN [M EXCEPT !.marketCache = setCache(@, query.date, overview, t),
                 !.market[q] = [query EXCEPT !.pc = "replied", !.reply = "success",
                                             !.fromCache = FALSE,
                                             !.dataToken = query.token,
                                             !.failed = failed,
                                             !.tokenAtReply = M.token]]

clearMarketCache(M) == [M EXCEPT !.marketCache = <<>>]

(***************************************************************************)
(* main/ipc/handlers.ts: the get-kline-data handler.  The series it        *)
(* returns records, for the properties, the token its upstream request was *)
(* sent with.                                                              *)
(***************************************************************************)
klineData(key, t, token) == [key |-> key, fetchedAt |-> t, token |-> token]

\* what Tushare answers: items, an empty item list, code # 0, or no answer
KlineOutcomes == {"items", "empty", "apiError", "throw"}

\* the handler up to its await: token check and cache check
klineStart(M, c, key, t) ==
    IF M.token = 0
    THEN [M EXCEPT !.kline[c] = [idleRequest EXCEPT !.pc = "replied", !.key = key,
                                                   !.reply = "ERR_TOKEN"]]
    ELSE LET r == getCachedKLine(M.klineCache, key, key[2], t) IN
         IF r.hit
         THEN [M EXCEPT !.kline[c] =
                 [idleRequest EXCEPT
                    !.pc = "replied", !.key = key, !.reply = "success",
                    !.fromCache = TRUE,
                    !.dataToken = mapGet(M.klineCache, key).data.token,
                    !.fetchedAt = mapGet(M.klineCache, key).data.fetchedAt,
                    !.tokenAtReply = M.token]]
         ELSE [M EXCEPT !.klineCache = r.cache,
                        !.kline[c] = [idleRequest EXCEPT !.pc = "upstream",
                                                         !.key = key,
                                                         !.token = M.token]]

\* the handler after its await
klineFinish(M, c, outcome, t) ==
    LET request == M.kline[c] IN
    CASE outcome = "items" ->
            [M EXCEPT !.klineCache =
                         setCachedKLine(@, request.key,
                                        klineData(request.key, t, request.token), t),
                      !.kline[c] = [request EXCEPT !.pc = "replied",
                                                   !.reply = "success",
                                                   !.dataToken = request.token,
                                                   !.fetchedAt = t,
                                                   !.tokenAtReply = M.token]]
      [] outcome = "empty" ->
            [M EXCEPT !.kline[c] = [request EXCEPT !.pc = "replied",
                                                   !.reply = "ERR_EMPTY_ITEMS"]]
      [] outcome = "apiError" ->
            [M EXCEPT !.kline[c] = [request EXCEPT !.pc = "replied",
                                                   !.reply = "ERR_API"]]
      [] outcome = "throw" ->
            [M EXCEPT !.kline[c] = [request EXCEPT !.pc = "replied",
                                                   !.reply = "ERR_NET_ZH"]]

(***************************************************************************)
(* main/market/historyProfile.ts                                           *)
(***************************************************************************)
\* ensureHistoryProfiles(client); b is the build it starts if it starts one
ensureHistoryProfiles(M, b) ==
    IF M.profileCacheDate = "today" /\ M.profileCache # 0 THEN M
    ELSE IF M.profileBuildPromise # 0 THEN M
    ELSE [M EXCEPT !.profileBuildPromise = b,
                   !.builds[b] = [pc |-> "running", token |-> M.token]]

\* buildProfiles resolves, then .finally(() => { profileBuildPromise = null })
buildProfilesDone(M, b, outcome) ==
    LET M1 == IF outcome = "built"
              THEN [M EXCEPT !.profileCache = M.builds[b].token,
                             !.profileCacheDate = "today"]
              ELSE M                          \* no trading day fetched: return
    IN [M1 EXCEPT !.profileBuildPromise = 0, !.builds[b].pc = "done"]

clearProfileCache(M) ==
    [M EXCEPT !.profileCache = 0, !.profileCacheDate = "", !.profileBuildPromise = 0]

\* getStockProfile(tsCode) in the get-realtime-top-stocks handler
getStockProfile(M) ==
    [M EXCEPT !.profileRead = [token |-> M.profileCache, tokenAtRead |-> M.token]]

\* the set-token handler
setToken(M, newToken) ==
    clearProfileCache(clearMarketCache([M EXCEPT !.token = newToken,
                                                 !.klineCache = <<>>]))

(***************************************************************************)
(* The main process on its own: invocations arrive over IPC, Tushare       *)
(* answers, the token is changed.                                          *)
(***************************************************************************)
TradeDates == {"20240102", "20240103"}
FailedParts == {{}, {"breadth"}, {"indices", "northbound"}, OverviewParts}

KlineInvoke(c, key) ==
    /\ main.kline[c].pc = "idle"
    /\ \A x \in Calls : x < c => main.kline[x].pc # "idle"
    /\ main.invocations < MaxInvocations
    /\ main' = [klineStart(main, c, key, now) EXCEPT !.invocations = @ + 1]
    /\ UNCHANGED <<fetchVars, pollVars, analysisVars, calcVars>>

KlineAnswer(c, outcome) ==
    /\ main.kline[c].pc = "upstream"
    /\ main' = klineFinish(main, c, outcome, now)
    /\ UNCHANGED <<fetchVars, pollVars, analysisVars, calcVars>>

MarketInvoke(q, date) ==
    /\ main.market[q].pc = "idle"
    /\ \A x \in Queries : x < q => main.market[x].pc # "idle"
    /\ main.invocations < MaxInvocations
    /\ main' = [marketStart(main, q, date, now) EXCEPT !.invocations = @ + 1]
    /\ UNCHANGED <<fetchVars, pollVars, analysisVars, calcVars>>

MarketAnswer(q, failed) ==
    /\ main.market[q].pc = "fetching"
    /\ main' = marketFinish(main, q, failed, now)
    /\ UNCHANGED <<fetchVars, pollVars, analysisVars, calcVars>>

\* get-realtime-top-stocks reaches ensureHistoryProfiles
EnsureProfiles(b) ==
    /\ main.token # 0
    /\ main.builds[b].pc = "idle"
    /\ \A x \in Builds : x < b => main.builds[x].pc # "idle"
    /\ main.invocations < MaxInvocations
    /\ main' = [ensureHistoryProfiles(main, b) EXCEPT !.invocations = @ + 1]
    /\ UNCHANGED <<fetchVars, pollVars, analysisVars, calcVars>>

BuildDone(b, outcome) ==
    /\ main.builds[b].pc = "running"
    /\ main' = buildProfilesDone(main, b, outcome)
    /\ UNCHANGED <<fetchVars, pollVars, analysisVars, calcVars>>

ReadProfile ==
    /\ main.token # 0
    /\ main' = getStockProfile(main)
    /\ main' # main
    /\ UNCHANGED <<fetchVars, pollVars, analysisVars, calcVars>>

SetToken ==
    /\ main.token < MaxToken
    /\ main' = setToken(main, main.token + 1)
    /\ UNCHANGED <<fetchVars, pollVars, analysisVars, calcVars>>

InitMain == InitFetch

NextMain ==
    \/ \E c \in Calls, key \in Keys : KlineInvoke(c, key)
    \/ \E c \in Calls, outcome \in KlineOutcomes : KlineAnswer(c, outcome)
    \/ \E q \in Queries, date \in TradeDates : MarketInvoke(q, date)
    \/ \E q \in Queries, failed \in FailedParts : MarketAnswer(q, failed)
    \/ \E b \in Builds : EnsureProfiles(b)
    \/ \E b \in Builds, outcome \in {"built", "nodata"} : BuildDone(b, outcome)
    \/ ReadProfile
    \/ SetToken

SpecMain == InitMain /\ [][NextMain]_vars

(***************************************************************************)
(* The renderer and the main process together: window.api.getKLineData is  *)
(* the get-kline-data handler.                                             *)
(***************************************************************************)
UserPause == 1000       \* ms the user lets pass between two actions

\* the handler takes up the invocation of call c
KlineHandle(c) ==
    /\ calls[c].pc = "awaitUpstream"
    /\ main.kline[c].pc \in {"idle", "delivered"}
    /\ main' = klineStart(main, c, calls[c].key, now)
    /\ UNCHANGED <<fetchVars, pollVars, analysisVars, calcVars>>

\* Tushare answers the handler
KlineUpstream(c, outcome) ==
    /\ main.kline[c].pc = "upstream"
    /\ outcome # "items" => errorsSeen < MaxErrors
    /\ main' = klineFinish(main, c, outcome, now)
    /\ UNCHANGED <<fetchVars, pollVars, analysisVars, calcVars>>

\* the handler's reply reaches fetchWithRetry
KlineDeliver(c) ==
    LET request == main.kline[c] IN
    /\ request.pc = "replied"
    /\ calls[c].pc = "awaitUpstream"
    /\ main' = [main EXCEPT !.kline[c].pc = "delivered"]
    /\ IF request.reply = "success"
       THEN commit(settle(Renderer, c, TRUE,
                          Series(request.key, request.fetchedAt), "", now))
       ELSE commit(afterFailure(Renderer, c, request.reply, now))
    /\ UNCHANGED <<now, advances, selectedStock, timeframe, hasToken,
                   poll, bars, analysis, calc>>

InitApp == InitFetch

NextApp ==
    \/ \E s \in Stocks : SelectStock(s)
    \/ \E tf \in Timeframes : SetTimeframe(tf)
    \/ Refresh
    \/ TokenFound
    \/ \E c \in Calls : KlineHandle(c)
    \/ \E c \in Calls, outcome \in KlineOutcomes : KlineUpstream(c, outcome)
    \/ \E c \in Calls : KlineDeliver(c)
    \/ \E c \in Calls : Wake(c)
    \/ \E t \in Instants \cup {now + UserPause} : Advance(t)

SpecApp == InitApp /\ [][NextApp]_vars

(***************************************************************************)
(* The library functions applied to inputs of their own: each action       *)
(* applies one function once and records the input and the result.         *)
(***************************************************************************)
Totals == -100..100

\* classifySignal(total)
Classify(total) ==
    /\ calc = NoCalc
    /\ calc' = [op |-> "classifySignal", total |-> total,
                level |-> classifySignal(total)]
    /\ UNCHANGED <<fetchVars, pollVars, analysisVars, mainVars>>

\* lengths around the floor of runAnalysis
AnalysedLengths == {0, 1, 2, 30, 58, 59, 60, 61}

\* runAnalysis(data) on a series of the given length
Analyse(shape, mode, n) ==
    /\ calc = NoCalc
    /\ calc' = [op |-> "runAnalysis", len |-> n,
                result |-> runAnalysis(series(shape, 150, mode, "rising", n))]
    /\ UNCHANGED <<fetchVars, pollVars, analysisVars, mainVars>>

\* support levels below and resistance levels above a price of 10.000, nearest
\* first, as calcSupportResistance orders them
SupportLists == {<<>>, <<9900>>, <<9801>>, <<9800>>, <<9500>>, <<9900, 9500>>}
ResistanceLists ==
    {<<>>, <<10100>>, <<10199>>, <<10200>>, <<10500>>, <<10100, 10500>>}

\* calcSRScore(currentPrice, sr, volumeIncreasing)
SRScore(support, resistance, rising) ==
    /\ calc = NoCalc
    /\ calc' = [op |-> "calcSRScore", currentPrice |-> 10000,
                support |-> support, resistance |-> resistance,
                volumeIncreasing |-> rising,
                score |-> calcSRScore(10000,
                                      [support |-> support,
                                       resistance |-> resistance],
                                      rising)]
    /\ UNCHANGED <<fetchVars, pollVars, analysisVars, mainVars>>

\* MarketBreadth samples: no stocks counted, one-sided and mixed markets,
\* limit moves from none to 4% of the market
Breadths ==
    {[advanceCount |-> a[1], declineCount |-> a[2], flatCount |-> a[3],
      limitUpCount |-> up, limitDownCount |-> down, totalCount |-> t] :
        a \in {<<0, 0, 0>>, <<5000, 0, 0>>, <<0, 5000, 0>>, <<2500, 2000, 500>>,
               <<1, 2, 0>>},
        up \in {0, 50, 200}, down \in {0, 50, 200}, t \in {0, 5000}}

PctChanges == {-5000, -3000, 0, 1500, 3000, 5000}

IndexLists ==
    {<<>>}
    \cup {<<[pct_chg |-> p, vol |-> v]>> : p \in PctChanges, v \in {0, 100}}
    \cup {<<[pct_chg |-> p, vol |-> 100], [pct_chg |-> q, vol |-> 100]>> :
            p \in {-5000, 1500}, q \in PctChanges}

Flows == {-20000, -10000, 0, 5000, 10000, 20000}

NorthboundLists ==
    {<<>>}
    \cup {<<[northMoney |-> f]>> : f \in Flows}
    \cup {<<[northMoney |-> 20000], [northMoney |-> f]>> : f \in {-20000, 5000}}

\* computeSentiment(overview)
Sentiment(breadth, indices, northbound) ==
    /\ calc = NoCalc
    /\ calc' = [op |-> "computeSentiment",
                overview |-> [breadth |-> breadth, indices |-> indices,
                              northbound |-> northbound],
                score |-> computeSentiment([breadth |-> breadth,
                                            indices |-> indices,
                                            northbound |-> northbound])]
    /\ UNCHANGED <<fetchVars, pollVars, analysisVars, mainVars>>

\* bars of which only the close matters, from a first close and the changes
MaxChanges == 5
Changes == {-SCALE, 0, SCALE}
ChangeSeqs == UNION {[1..n -> Changes] : n \in 1..MaxChanges}

RECURSIVE closesFrom(_, _)
closesFrom(first, changes) ==
    IF changes = <<>> THEN <<first>>
    ELSE LET before == closesFrom(first, SubSeq(changes, 1, Len(changes) - 1))
         IN Append(before, before[Len(before)] + changes[Len(changes)])

barsOfCloses(closes) ==
    [i \in 1..Len(closes) |->
        [open |-> closes[i], high |-> closes[i], low |-> closes[i],
         close |-> closes[i], volume |-> 100]]

\* calcRSI(data, period)
RSI(changes, period) ==
    /\ calc = NoCalc
    /\ calc' = [op |-> "calcRSI", period |-> period,
                closes |-> closesFrom(10 * SCALE, changes),
                rsi |-> calcRSI(barsOfCloses(closesFrom(10 * SCALE, changes)),
                                period)]
    /\ UNCHANGED <<fetchVars, pollVars, analysisVars, mainVars>>

\* lengths from the empty series to past the longest warm-up (MACD: 26 + 9 - 1)
IndicatorLengths == {0, 1, 2, 8, 9, 13, 14, 15, 19, 20, 25, 26, 33, 34, 35}

\* every indicator function, with its default periods, on the same series
Indicators(shape, pattern, n) ==
    /\ calc = NoCalc
    /\ LET data == series(shape, 150, "band", pattern, n) IN
       calc' = [op |-> "indicators", len |-> n,
                sma |-> calcSMA(closesOf(data), 20),
                ema |-> calcEMA(closesOf(data), 12),
                macd |-> calcMACD(data, 12, 26, 9),
                rsi |-> calcRSI(data, 14),
                kdj |-> calcKDJ(data, 9),
                boll |-> calcBOLL(data, 20, 2),
                obv |-> calcOBV(data),
                vwap |-> calcVWAP(data, 20),
                atr |-> calcATR(data, 14)]
    /\ UNCHANGED <<fetchVars, pollVars, analysisVars, mainVars>>

\* lengths from before the first DEA (bar 34) to past the floor of runAnalysis
TrendLengths == 30..61

\* the MACD part of calcTrendScore(data), with the MACD series it read
Macd(shape, step, n) ==
    /\ calc = NoCalc
    /\ LET data == series(shape, step, "band", "const", n) IN
       calc' = [op |-> "calcTrendScore", len |-> n,
                macd |-> calcMACD(data, 12, 26, 9),
                score |-> macdSignal(data)]
    /\ UNCHANGED <<fetchVars, pollVars, analysisVars, mainVars>>

\* price lists with equal prices, prices within and beyond the tolerance
MaxPrices == 4
PriceSamples == {10000, 10100, 10140, 10160, 10400, 11000}
PriceLists == UNION {[1..n -> PriceSamples] : n \in 0..MaxPrices}

\* clusterPriceLevels(prices, tolerance)
Cluster(prices, tolerance) ==
    /\ calc = NoCalc
    /\ calc' = [op |-> "clusterPriceLevels", prices |-> prices,
                tolerance |-> tolerance,
                levels |-> clusterPriceLevels(prices, tolerance)]
    /\ UNCHANGED <<fetchVars, pollVars, analysisVars, mainVars>>

\* calcSupportResistance(data), with the pivot prices it clustered
Levels(shape, step, mode, n) ==
    /\ calc = NoCalc
    /\ LET data == series(shape, step, mode, "const", n) IN
       calc' = [op |-> "calcSupportResistance",
                prices |-> pricesOf(findPivots(data, SR_LOOKBACK), "high")
                           \o pricesOf(findPivots(data, SR_LOOKBACK), "low"),
                sr |-> calcSupportResistance(data, SR_LOOKBACK, SR_TOLERANCE)]
    /\ UNCHANGED <<fetchVars, pollVars, analysisVars, mainVars>>


\* ages of an entry at the lookup, around each cache's time to live
CacheKinds == {"renderer", "kline", "market"}

ttlOf(kind, tf) ==
    CASE kind = "renderer" -> getCacheTTL(tf)
      [] kind = "kline" -> klineTTL(tf)
      [] kind = "market" -> MARKET_CACHE_TTL

\* a lookup of the only entry of a cache, created at time created, at time t
lookup(kind, tf, created, t) ==
    CASE kind = "renderer" ->
            LET key == getCacheKey("A", tf)
                cache == [k \in Keys |->
                            IF k = key
                            THEN [data |-> Series(key, created),
                                  timestamp |-> created, ttl |-> getCacheTTL(tf)]
                            ELSE NoEntry]
            IN [served |-> getCachedData(cache, key, t) # NoData,
                evicted |-> cacheAfterGet(cache, key, t)[key] = NoEntry]
      [] kind = "kline" ->
            LET r == getCachedKLine(<<[key |-> "A", data |-> "bars",
                                       timestamp |-> created]>>, "A", tf, t)
            IN [served |-> r.hit, evicted |-> r.cache = <<>>]
      [] kind = "market" ->
            LET r == getCached(<<[key |-> "20240102", data |-> "overview",
                                  timestamp |-> created]>>, "20240102", t)
            IN [served |-> r.hit, evicted |-> r.cache = <<>>]

\* getCachedData / getCachedKLine / getCached on an entry of the given age
Lookup(kind, tf, created, delta) ==
    /\ calc = NoCalc
    /\ ttlOf(kind, tf) + delta >= 0
    /\ calc' = [op |-> "cacheLookup", kind |-> kind, timeframe |-> tf,
                age |-> ttlOf(kind, tf) + delta, ttl |-> ttlOf(kind, tf),
                result |-> lookup(kind, tf, created,
                                  created + ttlOf(kind, tf) + delta)]
    /\ UNCHANGED <<fetchVars, pollVars, analysisVars, mainVars>>

\* a cache of the given size as earlier inserts and refreshes can have left
\* it: entry i was inserted i-th, and its timestamp follows the pattern
InsertTime == 1000000
FillPatterns == {"ascending", "same", "descending", "refreshedFirst"}
stampOf(pattern, size, i) ==
    CASE pattern = "ascending" -> i
      [] pattern = "same" -> InsertTime
      [] pattern = "descending" -> size - i + 1
      [] pattern = "refreshedFirst" -> IF i = 1 THEN InsertTime ELSE i

filled(kind, size, pattern) ==
    [i \in 1..size |->
        IF kind = "renderer"
        THEN [key |-> getCacheKey(i, "daily"), data |-> NoData,
              timestamp |-> stampOf(pattern, size, i), ttl |-> getCacheTTL("daily")]
        ELSE [key |-> getCacheKey(i, "daily"), data |-> NoData,
              timestamp |-> stampOf(pattern, size, i)]]

maxOf(kind) == IF kind = "renderer" THEN CACHE_MAX ELSE KLINE_CACHE_MAX
evictOf(kind) == IF kind = "renderer" THEN CACHE_EVICT ELSE KLINE_CACHE_EVICT
stamps(entries) ==
    [i \in 1..Len(entries) |-> [key |-> entries[i].key,
                                timestamp |-> entries[i].timestamp]]

\* setCachedData / setCachedKLine of a key at InsertTime
Insert(kind, below, pattern, present) ==
    /\ calc = NoCalc
    /\ LET size == maxOf(kind) - below
           before == filled(kind, size, pattern)
           key == getCacheKey(IF present THEN 1 ELSE 0, "daily")
           after == IF kind = "renderer"
                    THEN setCachedDataOrdered(before, key, NoData, "daily", InsertTime)
                    ELSE setCachedKLine(before, key, NoData, InsertTime)
       IN calc' = [op |-> "cacheInsert", kind |-> kind, pattern |-> pattern,
                   key |-> key, sizeBefore |-> size,
                   set |-> stamps(mapSet(before, [key |-> key,
                                                   timestamp |-> InsertTime])),
                   after |-> stamps(after)]
    /\ UNCHANGED <<fetchVars, pollVars, analysisVars, mainVars>>

\* generateTradePlan for a close of 10.000, a non-neutral total and the
\* last ATR given; atr 0 is the ATR of a series whose true ranges are all 0
PlanATRs == {0, 2, 50, 100, 150}
Plan(total, atr, support, resistance) ==
    /\ calc = NoCalc
    /\ calc' = [op |-> "generateTradePlan", currentPrice |-> 10000,
                total |-> total, atr |-> atr,
                support |-> support, resistance |-> resistance,
                plan |-> planFrom(10000,
                                  Some([longStopLoss |-> 10000 - atr * 2,
                                        shortStopLoss |-> 10000 + atr * 2,
                                        atrValue |-> atr]),
                                  [total |-> total, level |-> classifySignal(total)],
                                  [support |-> support, resistance |-> resistance])]
    /\ UNCHANGED <<fetchVars, pollVars, analysisVars, mainVars>>

InitFunctions == InitFetch

NextFunctions ==
    \/ \E total \in Totals : Classify(total)
    \/ \E shape \in Shapes, mode \in RangeModes, n \in AnalysedLengths :
            Analyse(shape, mode, n)
    \/ \E support \in SupportLists, resistance \in ResistanceLists,
          rising \in BOOLEAN :
            SRScore(support, resistance, rising)
    \/ \E breadth \in Breadths, indices \in IndexLists,
          northbound \in NorthboundLists :
            Sentiment(breadth, indices, northbound)
    \/ \E changes \in ChangeSeqs, period \in {2, 3} : RSI(changes, period)
    \/ \E shape \in {"up", "wave", "flat"}, pattern \in {"const", "rising"},
          n \in IndicatorLengths :
            Indicators(shape, pattern, n)
    \/ \E shape \in Shapes, step \in Steps, n \in TrendLengths :
            Macd(shape, step, n)
    \/ \E prices \in PriceLists, tolerance \in {SR_TOLERANCE, 20} :
            Cluster(prices, tolerance)
    \/ \E shape \in Shapes, step \in Steps, mode \in RangeModes,
          n \in {14, 15, 40, 60} :
            Levels(shape, step, mode, n)
    \/ \E kind \in CacheKinds, tf \in Timeframes, created \in {0, 1000, 86400000},
          delta \in {-60000, -1, 0, 1, 60000} :
            Lookup(kind, tf, created, delta)
    \/ \E kind \in {"renderer", "kline"}, below \in {0, 1, 2},
          pattern \in FillPatterns, present \in BOOLEAN :
            Insert(kind, below, pattern, present)
    \/ \E total \in {-70, -25, 25, 70}, atr \in PlanATRs,
          support \in SupportLists, resistance \in ResistanceLists :
            Plan(total, atr, support, resistance)

SpecFunctions == InitFunctions /\ [][NextFunctions]_vars

(***************************************************************************)
(* Properties of useStockData.fetchData                                    *)
(***************************************************************************)
\* the messages whose failure is an auth, permission or no-data failure
NonRetryableErrors == {"ERR_TOKEN", "ERR_PERMISSION", "ERR_EMPTY_ITEMS", "ERR_NO_DATA"}

\* C4: for one key at most one upstream getKLineData request is outstanding
\* at a time.
C4_OneUpstreamRequestPerKey ==
    \A c1, c2 \in Calls :
        (c1 # c2 /\ calls[c1].pc = "awaitUpstream" /\ calls[c2].pc = "awaitUpstream")
            => calls[c1].key # calls[c2].key

\* C5: a result that arrives after the selection moved to another instrument
\* is discarded: a call writes its series to the hook's data only while its
\* own instrument is the selected one.
C5_LateResultDiscarded ==
    \A c \in Calls :
        calls[c].outcome \in {"ok", "joined"}
            => calls[c].key[1] = calls[c].selectedAtEnd

\* C7: a call that fails with a retryable error has made exactly 3 upstream
\* calls, has waited 1 s before the second and 3 s before the third, no more,
\* and has surfaced the classified error.
C7_ThreeAttemptsWithBackoff ==
    \A c \in Calls :
        (calls[c].outcome = "failed" /\ calls[c].lastRaw \notin NonRetryableErrors)
            => /\ calls[c].pc = "done"
               /\ calls[c].upstreamCount = 3
               /\ calls[c].waits = <<1000, 3000>>
               /\ Len(calls[c].waited) = 2
               /\ calls[c].waited[1] >= 1000
               /\ calls[c].waited[2] >= 3000
               /\ calls[c].surfaced.type \in {"network", "api", "unknown"}
               /\ calls[c].surfaced.retryable

\* a call whose three attempts all failed with retryable errors
C7_RetriesExhausted ==
    \E c \in Calls :
        /\ calls[c].outcome = "failed"
        /\ calls[c].upstreamCount = 3
        /\ calls[c].surfaced.retryable

\* C8: the call whose upstream attempt fails with a non-retryable error has
\* made exactly one upstream call and has not waited.
C8_ExactlyOneUpstreamCall ==
    \A c \in Calls :
        calls[c].lastRaw \in NonRetryableErrors
            => calls[c].upstreamCount = 1 /\ calls[c].waits = <<>>

\* C8, as the code has it: a non-retryable failure ends the call at once, with
\* the classified error surfaced, no further upstream call and no wait after
\* it; the upstream calls and waits before it are those of the retryable
\* failures that preceded it, none if it came on the first attempt.
C8_NothingAfterNonRetryable ==
    \A c \in Calls :
        calls[c].lastRaw \in NonRetryableErrors
            => /\ calls[c].pc = "done"
               /\ calls[c].outcome = "failed"
               /\ calls[c].surfaced.type \in {"auth", "permission", "nodata"}
               /\ ~calls[c].surfaced.retryable
               /\ calls[c].upstreamCount = calls[c].attempt + 1
               /\ Len(calls[c].waits) = calls[c].attempt
               /\ Len(calls[c].waited) = calls[c].attempt

\* a call ended by a non-retryable failure of its first attempt
C8_FailedFast ==
    \E c \in Calls :
        /\ calls[c].lastRaw \in NonRetryableErrors
        /\ calls[c].outcome = "failed"
        /\ calls[c].upstreamCount = 1

\* C9: a call that ended in terminal failure has changed nothing in dataCache.
C9_CacheUntouchedByFailure ==
    \A c \in Calls :
        calls[c].outcome = "failed" => calls[c].cacheOps = <<>>

\* C9, as the code has it: a call that ended in terminal failure has stored
\* nothing in dataCache; the one change it may have made is the removal, on
\* its cache lookup, of the expired entry of its own key.
C9_NothingStoredByFailure ==
    \A c \in Calls :
        calls[c].outcome = "failed"
            => /\ calls[c].cacheOps \in {<<>>, <<"delete">>}
               /\ calls[c].cacheOps = <<"delete">>
                    => /\ ~calls[c].force
                       /\ calls[c].startEntry # NoEntry
                       /\ calls[c].startNow - calls[c].startEntry.timestamp
                            > calls[c].startEntry.ttl

\* a failed call whose lookup removed the expired entry of its key
C9_FailedAfterExpiredLookup ==
    \E c \in Calls :
        calls[c].outcome = "failed" /\ calls[c].cacheOps = <<"delete">>

signalOf == Val(analysis).signal
planOf == Val(Val(analysis).tradePlan)
hasAnalysis == analysis # NullV
hasPlan == hasAnalysis /\ Val(analysis).tradePlan # NullV

\* every bar has low <= open, close <= high
ohlcConsistent(data) ==
    \A i \in 1..Len(data) :
        /\ data[i].low <= data[i].close /\ data[i].close <= data[i].high
        /\ data[i].low <= data[i].open /\ data[i].open <= data[i].high

\* C1: for a series of at least 60 bars the analysis holds a signal whose total
\* is the sum of its four dimension scores, with trend in [-40,40], oscillator
\* in [-30,30], volume in [-20,20], supportResistance in [-10,10], and so
\* total in [-100,100].
C1_TotalIsSumOfBoundedScores ==
    Len(bars) >= MIN_BARS =>
        /\ hasAnalysis
        /\ signalOf.total = signalOf.trend + signalOf.oscillator
                              + signalOf.volume + signalOf.supportResistance
        /\ signalOf.trend \in -40..40
        /\ signalOf.oscillator \in -30..30
        /\ signalOf.volume \in -20..20
        /\ signalOf.supportResistance \in -10..10
        /\ signalOf.total \in -100..100

\* a signal to which every dimension contributes
C1_AllDimensionsScore ==
    /\ hasAnalysis
    /\ signalOf.trend # 0
    /\ signalOf.oscillator # 0
    /\ signalOf.volume # 0
    /\ signalOf.supportResistance # 0

\* C2: for a series of at least 60 bars the trade plan is null exactly when
\* the signal level is neutral.
C2_PlanIffNotNeutral ==
    Len(bars) >= MIN_BARS =>
        /\ hasAnalysis
        /\ (Val(analysis).tradePlan = NullV) <=> (signalOf.level = "neutral")

\* a non-neutral signal, with its plan, on a series whose ATR is zero
C2_PlanOnZeroATR ==
    /\ hasPlan
    /\ signalOf.level # "neutral"
    /\ planOf.atrValue = 0

\* C3: every trade plan has a riskRewardRatio that is a number >= 0 and a
\* positionSizePct in [0,25], also when the stop distance is zero.
C3_PlanNumbersDefined ==
    hasPlan =>
        /\ planOf.riskRewardRatio.kind = "number"
        /\ planOf.riskRewardRatio.v >= 0
        /\ planOf.positionSizePct \in 0..(25 * SCALE)

\* a plan on a zero stop distance: its position size is 0
C3_ZeroStopDistance ==
    /\ hasPlan
    /\ planOf.stopLoss = planOf.entryPrice
    /\ planOf.positionSizePct = 0


\* C6: the polling loop never has two refreshRealtimeBar requests
\* outstanding at once for the same subject.
C6_OnePollPerSubject ==
    \A i, j \in 1..Len(poll.requests) :
        i # j => poll.requests[i].subject # poll.requests[j].subject

\* C12: for the 60-bar series of close = 100, open = 100, high = 101, low = 99,
\* volume = 1000 the analysis has trend 0, oscillator 0, volume 0 and
\* support/resistance 0, hence total 0, level neutral and no trade plan.
C12_FlatScenarioScoresZero ==
    bars = flatScenario =>
        /\ hasAnalysis
        /\ signalOf.trend = 0
        /\ signalOf.oscillator = 0
        /\ signalOf.volume = 0
        /\ signalOf.supportResistance = 0
        /\ signalOf.total = 0
        /\ signalOf.level = "neutral"
        /\ Val(analysis).tradePlan = NullV

\* the same series analysed: the close equal to the VWAP costs 10 points
C12_FlatScenarioAnalysed ==
    /\ bars = flatScenario
    /\ hasAnalysis
    /\ signalOf.trend = 0 /\ signalOf.oscillator = 0
    /\ signalOf.supportResistance = 0
    /\ signalOf.volume = -10 /\ signalOf.total = -10
    /\ signalOf.level = "neutral"
    /\ Val(analysis).tradePlan = NullV

\* C14: while isTradingTime is false the poll produces no output: no step
\* issues a refreshRealtimeBar request and no step sets realtimeBar to a bar
\* (the reset to null on a change of stock apart).
C14_NoOutputOutsideTradingTime ==
    [][~isTradingTime(poll.utcDay, poll.utcMin) =>
            /\ Len(poll'.requests) <= Len(poll.requests)
            /\ poll'.realtimeBar \in {poll.realtimeBar, Null}]_vars

\* outside the trading window with a request of the window still outstanding
C14_RequestOutlivesWindow ==
    /\ ~isTradingTime(poll.utcDay, poll.utcMin)
    /\ poll.requests # <<>>
    /\ poll.tsCodeRef = poll.requests[1].closure
    /\ poll.realtimeBar = Null

(***************************************************************************)
(* Properties of the library functions                                     *)
(***************************************************************************)
\* C11: classifySignal maps total > 60 to strong_buy, 30 < total <= 60 to buy,
\* -30 < total <= 30 to neutral, -60 < total <= -30 to sell and total <= -60
\* to strong_sell.
C11_StrictThresholds ==
    calc.op = "classifySignal" =>
        calc.level = (CASE calc.total > 60 -> "strong_buy"
                        [] calc.total > 30 /\ calc.total <= 60 -> "buy"
                        [] calc.total > -30 /\ calc.total <= 30 -> "neutral"
                        [] calc.total > -60 /\ calc.total <= -30 -> "sell"
                        [] calc.total <= -60 -> "strong_sell")

\* a total of exactly 60, classified buy
C11_SixtyIsBuy ==
    calc.op = "classifySignal" /\ calc.total = 60 /\ calc.level = "buy"

\* C13: runAnalysis returns null for every series shorter than 60 bars, the
\* empty series included, and a result for every series of 60 bars or more.
C13_NullBelowSixtyBars ==
    calc.op = "runAnalysis" =>
        /\ calc.len < 60 => calc.result = NullV
        /\ calc.len >= 60 =>
                /\ calc.result # NullV
                /\ Val(calc.result).signal.total \in -100..100

\* the empty series analysed to null
C13_EmptySeriesIsNull ==
    calc.op = "runAnalysis" /\ calc.len = 0 /\ calc.result = NullV

\* the price within 2% below the nearest resistance and not within 2% above
\* the nearest support
nearResistanceOnly ==
    /\ calc.resistance # <<>>
    /\ calc.resistance[1] >= calc.currentPrice
    /\ (calc.resistance[1] - calc.currentPrice) * 100 < 2 * calc.currentPrice
    /\ \/ calc.support = <<>>
       \/ calc.support[1] > calc.currentPrice
       \/ (calc.currentPrice - calc.support[1]) * 100 >= 2 * calc.currentPrice

\* C15: with the price within 2% below the nearest resistance and not within
\* 2% above a support, calcSRScore returns -10 if the volume is rising and -5
\* if it is flat or falling.
C15_ResistancePenaltyByVolume ==
    calc.op = "calcSRScore" /\ nearResistanceOnly =>
        calc.score = (IF calc.volumeIncreasing THEN -10 ELSE -5)

\* near a resistance on rising volume the score is -5
C15_RisingVolumeScoresMinusFive ==
    /\ calc.op = "calcSRScore" /\ nearResistanceOnly
    /\ calc.volumeIncreasing
    /\ calc.score = -5

\* sum of value_i * weight_i and of weight_i over the returned components
weighted(components) ==
    forLoop(LAMBDA acc, i : acc + components[i].value * components[i].weight,
            0, 1, Len(components))

weights(components) ==
    forLoop(LAMBDA acc, i : acc + components[i].weight, 0, 1, Len(components))

\* C16: computeSentiment returns total = round(sum of value_i * weight_i), the
\* weights sum to 1, every component value lies in [0, 100] and total is an
\* integer in [0, 100], for every MarketOverview.
C16_TotalIsRoundedWeightedSum ==
    calc.op = "computeSentiment" =>
        LET c == calc.score.components
            unit == SCALE * WEIGHT_UNIT
        IN /\ Len(c) = 6
           /\ weights(c) = WEIGHT_UNIT
           /\ \A i \in 1..Len(c) : c[i].value >= 0 /\ c[i].value <= 100 * SCALE
           /\ calc.score.total \in 0..100
           \* total - 1/2 <= sum < total + 1/2
           /\ 2 * calc.score.total * unit - unit <= 2 * weighted(c)
           /\ 2 * weighted(c) < 2 * calc.score.total * unit + unit

\* an overview with zero counts, no indices and no northbound rows scores 50
C16_EmptyOverviewScoresFifty ==
    /\ calc.op = "computeSentiment"
    /\ calc.overview.breadth.totalCount = 0
    /\ calc.overview.breadth.advanceCount = 0
    /\ calc.overview.breadth.declineCount = 0
    /\ calc.overview.breadth.flatCount = 0
    /\ calc.overview.breadth.limitUpCount = 0
    /\ calc.overview.breadth.limitDownCount = 0
    /\ calc.overview.indices = <<>>
    /\ calc.overview.northbound = <<>>
    /\ calc.score.total = 50

\* the price changes of the period-long window ending at index i
windowChanges(closes, period, i) ==
    {closes[j] - closes[j - 1] : j \in (i - period + 1)..i}

\* C17: at every defined index i, RSI[i] = 100 if and only if all price changes
\* of the period-long window ending at i are non-negative and at least one is
\* positive.
C17_HundredIffWindowOnlyGains ==
    calc.op = "calcRSI" =>
        \A i \in 1..Len(calc.rsi) :
            calc.rsi[i] # NullV =>
                (Val(calc.rsi[i]) = 100 * SCALE
                    <=> /\ \A c \in windowChanges(calc.closes, calc.period, i) :
                               c >= 0
                        /\ \E c \in windowChanges(calc.closes, calc.period, i) :
                               c > 0)

\* an RSI of 100 at the end of closes that never moved
C17_FlatWindowIsHundred ==
    /\ calc.op = "calcRSI"
    /\ Len(calc.closes) > calc.period
    /\ \A j \in 1..Len(calc.closes) : calc.closes[j] = calc.closes[1]
    /\ calc.rsi[Len(calc.rsi)] = Some(100 * SCALE)

\* every series an indicator function returned, with the number of leading
\* positions that lack history
indicatorSeries ==
    {<<calc.sma, 19>>, <<calc.ema, 11>>, <<calc.macd.dif, 25>>,
     <<calc.macd.dea, 33>>, <<calc.macd.histogram, 33>>, <<calc.rsi, 14>>,
     <<calc.kdj.k, 8>>, <<calc.kdj.d, 8>>, <<calc.kdj.j, 8>>,
     <<calc.boll.upper, 19>>, <<calc.boll.middle, 19>>, <<calc.boll.lower, 19>>,
     <<calc.obv, 0>>, <<calc.vwap, 19>>, <<calc.atr, 13>>}

\* C18: every indicator function returns series of exactly the input's length,
\* for every length including 0, 1 and lengths below the period, and positions
\* without enough history hold null.
C18_FullLengthWithNulls ==
    calc.op = "indicators" =>
        \A s \in indicatorSeries :
            /\ Len(s[1]) = calc.len
            /\ \A i \in 1..Len(s[1]) : i <= s[2] => s[1][i] = NullV

\* calcRSI of the empty series has one element
C18_RSIOfEmptySeries ==
    calc.op = "indicators" /\ calc.len = 0 /\ calc.rsi = <<NullV>>

\* DIF and DEA are both defined on the last two bars
crossDefined ==
    /\ calc.len >= 2
    /\ \A i \in {calc.len - 1, calc.len} :
            calc.macd.dif[i] # NullV /\ calc.macd.dea[i] # NullV

\* the histogram, and DIF - DEA of the same bar, on the last two bars
histPrev == Val(calc.macd.histogram[calc.len - 1])
histCurr == Val(calc.macd.histogram[calc.len])
gapPrev == Val(calc.macd.dif[calc.len - 1]) - Val(calc.macd.dea[calc.len - 1])
gapCurr == Val(calc.macd.dif[calc.len]) - Val(calc.macd.dea[calc.len])

\* C19: on the last two bars where DIF and DEA are defined, the golden cross
\* (+20) is scored exactly when the histogram goes from <= 0 to > 0 and the
\* death cross (-20) exactly when it goes from >= 0 to < 0; DIF and DEA are
\* compared on the same bar, and without the two bars no cross is scored.
C19_CrossIffHistogramFlips ==
    calc.op = "calcTrendScore" =>
        IF crossDefined
        THEN /\ calc.score = 20 <=> (histPrev <= 0 /\ histCurr > 0)
             /\ calc.score = -20 <=> (histPrev >= 0 /\ histCurr < 0)
             /\ calc.score = 20 <=> (gapPrev <= 0 /\ gapCurr > 0)
             /\ calc.score = -20 <=> (gapPrev >= 0 /\ gapCurr < 0)
        ELSE calc.score \notin {20, -20}

\* a golden cross on the last bar, scored +20
C19_GoldenCrossScored ==
    /\ calc.op = "calcTrendScore" /\ crossDefined
    /\ histPrev <= 0 /\ histCurr > 0
    /\ calc.score = 20

\* level is the mean of at least two neighbours of the sorted prices
isMeanOfRun(sorted, level) ==
    \E a \in 1..Len(sorted) : \E b \in (a + 1)..Len(sorted) :
        level = sumRange(sorted, a, b) \div (b - a + 1)

\* prices[i] is at least the tolerance away from every other price
isolated(prices, i, tolerance) ==
    \A j \in (1..Len(prices)) \ {i} :
        Abs(prices[j] - prices[i]) * SCALE >= tolerance * Max(prices[i], prices[j])

\* C20: every level clusterPriceLevels returns is the mean of a cluster of at
\* least two input prices and a price without a neighbour never appears;
\* hence every level of calcSupportResistance is the mean of at least two
\* pivot prices.
C20_LevelsNeedTwoPrices ==
    /\ calc.op = "clusterPriceLevels" =>
            /\ \A k \in 1..Len(calc.levels) :
                    isMeanOfRun(sortAsc(calc.prices), calc.levels[k])
            /\ \A i \in 1..Len(calc.prices) :
                    isolated(calc.prices, i, calc.tolerance) =>
                        \A k \in 1..Len(calc.levels) :
                            calc.levels[k] # calc.prices[i]
    /\ calc.op = "calcSupportResistance" =>
            \A k \in 1..Len(calc.sr.support \o calc.sr.resistance) :
                isMeanOfRun(sortAsc(calc.prices),
                            (calc.sr.support \o calc.sr.resistance)[k])

\* two prices clustered into one level next to a price left out
C20_PairKeptSingleDropped ==
    /\ calc.op = "clusterPriceLevels"
    /\ Len(calc.prices) = 3 /\ Len(calc.levels) = 1
    /\ \E i \in 1..3 : isolated(calc.prices, i, calc.tolerance)

\* C21: an entry is served only while now - createdAt < ttl; at an age of
\* exactly ttl the lookup treats it as absent and evicts it, in the renderer
\* cache, the main-process K-line cache and the market cache alike.
C21_ServedOnlyBeforeTTL ==
    calc.op = "cacheLookup" =>
        /\ calc.result.served <=> calc.age < calc.ttl
        /\ calc.age >= calc.ttl => calc.result.evicted

\* an entry exactly ttl old, served and kept
C21_ServedAtTTL ==
    /\ calc.op = "cacheLookup"
    /\ calc.age = calc.ttl
    /\ calc.result.served /\ ~calc.result.evicted

(***************************************************************************)
(* Properties of the main process                                          *)
(***************************************************************************)
\* C22: fetchMarketOverview caches an overview, and returns it as a fresh
\* success, only when the upstream fetches succeeded: no overview with a
\* failed part is in the market cache.
C22_OnlyCompleteOverviewsCached ==
    /\ \A i \in 1..Len(main.marketCache) :
            main.marketCache[i].data.failed = {}
    /\ \A q \in Queries :
            main.market[q].pc = "replied" /\ main.market[q].reply = "success"
                => main.market[q].failed = {}

\* an overview of which every upstream fetch failed, cached
C22_EmptyOverviewCached ==
    \E i \in 1..Len(main.marketCache) :
        main.marketCache[i].data.failed = OverviewParts

(***************************************************************************)
(* Properties of the renderer and the main process together                *)
(***************************************************************************)
\* C23: the data a fetchData call reports as fresh (fromCache false,
\* lastUpdated the time it completed) came from an upstream request made for
\* that call: the handler did not answer it from klineCache.
C23_FreshMeansFetchedUpstream ==
    \A c \in Calls :
        calls[c].pc = "done" /\ calls[c].outcome = "ok"
            => ~main.kline[c].fromCache

\* a forced refresh answered from klineCache and shown as fresh, with a
\* lastUpdated later than the time the data was fetched
C23_ForcedRefreshServedFromMainCache ==
    \E c \in Calls :
        /\ calls[c].pc = "done" /\ calls[c].outcome = "ok" /\ calls[c].force
        /\ main.kline[c].fromCache
        /\ hook.data = Series(calls[c].key, main.kline[c].fetchedAt)
        /\ ~hook.fromCache /\ ~hook.loading
        /\ hook.lastUpdated > hook.data.fetchedAt

\* C24: when Tushare returns an empty item list for a K-line request, the
\* error the renderer surfaces is of type nodata and not retryable.
C24_EmptyItemsIsNoData ==
    \A c \in Calls :
        /\ main.kline[c].pc = "delivered"
        /\ main.kline[c].reply = "ERR_EMPTY_ITEMS"
        /\ calls[c].pc = "done"
        => calls[c].surfaced = [type |-> "nodata", retryable |-> FALSE]

\* an empty item list surfaced as an authentication error
C24_EmptyItemsShownAsAuth ==
    \E c \in Calls :
        /\ main.kline[c].pc = "delivered"
        /\ main.kline[c].reply = "ERR_EMPTY_ITEMS"
        /\ calls[c].pc = "done" /\ calls[c].outcome = "failed"
        /\ calls[c].surfaced.type = "auth"
        /\ hook.error.type = "auth"

\* C25: the renderer cache never holds more than 50 entries and the main
\* K-line cache never more than 100; when an insert takes the size over the
\* threshold, the entries removed are 10 (20) entries with the oldest
\* timestamps, and the entry just inserted is not among them.
C25_EvictsOldestKeepsInserted ==
    calc.op = "cacheInsert" =>
        LET kept == mapKeys(calc.after)
            removed == mapKeys(calc.set) \ kept
            stampIn(k) == mapGet(calc.set, k).timestamp
        IN /\ Len(calc.after) <= maxOf(calc.kind)
           /\ kept \subseteq mapKeys(calc.set)
           /\ calc.key \in kept
           /\ mapGet(calc.after, calc.key).timestamp = InsertTime
           /\ IF Len(calc.set) > maxOf(calc.kind)
              THEN /\ Cardinality(removed) = evictOf(calc.kind)
                   /\ \A r \in removed, k \in kept : stampIn(r) <= stampIn(k)
              ELSE removed = {}

\* the 101st K-line entry inserted into a cache whose first entry was
\* refreshed last: 20 entries go, the first and the inserted one stay
C25_FullCacheEvicted ==
    /\ calc.op = "cacheInsert" /\ calc.kind = "kline"
    /\ calc.pattern = "refreshedFirst"
    /\ Len(calc.set) = KLINE_CACHE_MAX + 1
    /\ Len(calc.after) = KLINE_CACHE_MAX + 1 - KLINE_CACHE_EVICT
    /\ calc.key \in mapKeys(calc.after)
    /\ getCacheKey(1, "daily") \in mapKeys(calc.after)

(***************************************************************************)
(* Properties of useRealtimeRefresh, continued                             *)
(***************************************************************************)
\* C26: at every moment realtimeBar is null or a bar fetched for the
\* currently selected tsCode, in the hook's state and in what it returns.
C26_BarBelongsToSelectedStock ==
    /\ poll.realtimeBar \in {Null, poll.tsCode}
    /\ poll.returned.realtimeBar \in {Null, poll.returned.tsCode}

\* the hook called with tsCode B returns the bar fetched for A
C26_PreviousBarReturnedForNewStock ==
    /\ poll.returned.tsCode = "B"
    /\ poll.returned.realtimeBar = "A"

\* C27: the target of a long plan is the nearest resistance if that lies
\* more than one stop distance above the entry and entry + 2 x stop distance
\* otherwise, that of a short plan the nearest support if it lies more than
\* one stop distance below the entry and entry - 2 x stop distance otherwise;
\* the target is on the favourable side of the entry and the stop on the
\* opposite side.
C27_TargetRuleAndSides ==
    calc.op = "generateTradePlan" =>
        LET plan == Val(calc.plan)
            entry == calc.currentPrice
            distance == 2 * calc.atr
            cents == SCALE \div 100
        IN IF calc.total > 0
           THEN /\ plan.direction = "long"
                /\ plan.targetPrice =
                     roundTo(IF Len(calc.resistance) > 0
                                /\ calc.resistance[1] > entry + distance
                             THEN calc.resistance[1]
                             ELSE entry + 2 * distance, cents)
                /\ plan.targetPrice > entry
                /\ plan.stopLoss < entry
           ELSE /\ plan.direction = "short"
                /\ plan.targetPrice =
                     roundTo(IF Len(calc.support) > 0
                                /\ calc.support[1] < entry - distance
                             THEN calc.support[1]
                             ELSE entry - 2 * distance, cents)
                /\ plan.targetPrice < entry
                /\ plan.stopLoss > entry

\* a long plan on a zero ATR with no resistance: stop and target both at entry
C27_StopAndTargetAtEntry ==
    /\ calc.op = "generateTradePlan" /\ calc.total > 0 /\ calc.atr = 0
    /\ calc.resistance = <<>>
    /\ Val(calc.plan).stopLoss = calc.currentPrice
    /\ Val(calc.plan).targetPrice = calc.currentPrice

(***************************************************************************)
(* Properties of the main process, continued                               *)
(***************************************************************************)
runningBuilds == {b \in Builds : main.builds[b].pc = "running"}

\* C28: at most one history-profile build runs at a time, whatever the
\* interleaving of ensureHistoryProfiles and clearProfileCache.
C28_OneBuildAtATime == Cardinality(runningBuilds) <= 1

\* two builds running, the second started after set-token cleared the
\* promise of the first
C28_TwoBuildsRunning ==
    /\ main.builds[1].pc = "running" /\ main.builds[2].pc = "running"
    /\ main.builds[1].token # main.builds[2].token
    /\ main.profileBuildPromise = 2

\* C29: after set-token, no K-line, market-overview or history-profile data
\* fetched under an earlier token is served from a cache of the main process.
C29_NothingOfThePreviousTokenServed ==
    /\ \A c \in Calls :
          main.kline[c].pc = "replied" /\ main.kline[c].fromCache
              => main.kline[c].dataToken = main.kline[c].tokenAtReply
    /\ \A q \in Queries :
          main.market[q].pc = "replied" /\ main.market[q].fromCache
              => main.market[q].dataToken = main.market[q].tokenAtReply
    /\ main.profileRead.token \in {0, main.profileRead.tokenAtRead}

\* K-line data fetched under token 1 served from klineCache under token 2
C29_OldTokenKLineServed ==
    \E c \in Calls :
        /\ main.kline[c].pc = "replied" /\ main.kline[c].fromCache
        /\ main.kline[c].dataToken = 1 /\ main.kline[c].tokenAtReply = 2

(***************************************************************************)
(* Properties of the renderer's in-flight map                              *)
(***************************************************************************)
\* the calls whose own fetchWithRetry promise has not settled
outstandingFor(k) ==
    {c \in Calls : calls[c].key = k /\ calls[c].pc \in {"awaitUpstream", "sleeping"}}

\* C30: inflightRequests holds an entry for a key exactly while a request
\* registered for that key is outstanding, and the entry is that of an
\* outstanding request: a settling request removes no other request's entry.
C30_InflightIffOutstanding ==
    \A k \in Keys :
        /\ inflightRequests[k] # NoPromise <=> outstandingFor(k) # {}
        /\ inflightRequests[k] # NoPromise => inflightRequests[k] \in outstandingFor(k)

\* a forced refresh is still outstanding, and the entry it registered is gone:
\* the earlier request for the key settled and deleted it
C30_EntryOfOutstandingRequestRemoved ==
    \E k \in Keys, c \in Calls :
        /\ c \in outstandingFor(k) /\ calls[c].force
        /\ inflightRequests[k] = NoPromise
        /\ \E d \in Calls : d < c /\ calls[d].key = k /\ calls[d].pc = "done"
                            /\ calls[d].upstreamCount > 0

====
